---- MODULE Spec2Model ----
(***************************************************************************)
(* Image-registry credential resolution and validation of the              *)
(* baremetal-operator: pkg/secretutils (dockerconfig.go) and               *)
(* pkg/imageauthvalidator (validator.go).                                  *)
(*                                                                         *)
(* A Go string is a sequence of one-character strings, so that prefix      *)
(* tests, concatenation, substring search, quoting and base64 are computed *)
(* on the text as the code computes them.  A Go pointer is a sequence of   *)
(* length 0 (nil) or 1 (the pointee).  An error value is a sequence of     *)
(* length 0 (nil) or 1 (its text).                                         *)
(***************************************************************************)
EXTENDS Integers, Sequences, FiniteSets, TLC

(***************************************************************************)
(* Text primitives of the Go standard library used by the code.            *)
(***************************************************************************)

\* Printable ASCII, code 32 (space) to 126 (~), in code order.  Code 96, the
\* grave accent, cannot be written in a TLA+ string and is named instead.
Ascii ==
  <<" ","!","\"","#","$","%","&","'","(",")","*","+",",","-",".","/","0","1","2","3","4","5","6","7","8","9",":",";","<","=",">","?","@","A","B","C","D","E","F","G","H","I","J","K","L","M","N","O","P","Q","R","S","T","U","V","W","X","Y","Z","[","\\","]","^","_","grave","a","b","c","d","e","f","g","h","i","j","k","l","m","n","o","p","q","r","s","t","u","v","w","x","y","z","{","|","}","~">>

\* The alphabet of base64.StdEncoding, in value order 0..63.
Base64Alphabet ==
  <<"A","B","C","D","E","F","G","H","I","J","K","L","M","N","O","P","Q","R","S","T","U","V","W","X","Y","Z","a","b","c","d","e","f","g","h","i","j","k","l","m","n","o","p","q","r","s","t","u","v","w","x","y","z","0","1","2","3","4","5","6","7","8","9","+","/">>

Ord(c) == 31 + (CHOOSE i \in 1..Len(Ascii) : Ascii[i] = c)

\* Bytes outside printable ASCII have no character here; the inputs of the
\* model never decode to one.
Chr(n) == IF n \in 32..126 THEN Ascii[n - 31] ELSE "?"

B64Value(c) == (CHOOSE i \in 1..Len(Base64Alphabet) : Base64Alphabet[i] = c) - 1

IsB64Char(c) == \E i \in 1..Len(Base64Alphabet) : Base64Alphabet[i] = c

\* strings.HasPrefix
HasPrefix(s, prefix) ==
  Len(s) >= Len(prefix) /\ SubSeq(s, 1, Len(prefix)) = prefix

\* strings.TrimPrefix
TrimPrefix(s, prefix) ==
  IF HasPrefix(s, prefix) THEN SubSeq(s, Len(prefix) + 1, Len(s)) ELSE s

\* strings.Contains
Contains(s, substr) ==
  \E i \in 0..(Len(s) - Len(substr)) : SubSeq(s, i + 1, i + Len(substr)) = substr

\* strings.ToLower on ASCII text
ToLower(s) ==
  [i \in 1..Len(s) |->
     IF Ord(s[i]) \in 65..90 THEN Chr(Ord(s[i]) + 32) ELSE s[i]]

\* strings.IndexByte, 1-based; 0 when c does not occur
IndexByte(s, c) ==
  IF \E i \in 1..Len(s) : s[i] = c
  THEN CHOOSE i \in 1..Len(s) : s[i] = c /\ \A j \in 1..(i - 1) : s[j] # c
  ELSE 0

\* strings.LastIndexByte, 1-based; 0 when c does not occur
LastIndexByte(s, c) ==
  IF \E i \in 1..Len(s) : s[i] = c
  THEN CHOOSE i \in 1..Len(s) : s[i] = c /\ \A j \in (i + 1)..Len(s) : s[j] # c
  ELSE 0

\* The first index of s holding a character of set cs; Len(s)+1 when none
IndexAny(s, cs) ==
  IF \E i \in 1..Len(s) : s[i] \in cs
  THEN CHOOSE i \in 1..Len(s) : s[i] \in cs /\ \A j \in 1..(i - 1) : s[j] \notin cs
  ELSE Len(s) + 1

\* fmt's %q verb (strconv.Quote) on printable ASCII: the text in double
\* quotes, with every double quote and backslash escaped by a backslash.
RECURSIVE QuoteBody(_)
QuoteBody(s) ==
  IF s = <<>> THEN <<>>
  ELSE (IF Head(s) \in {"\"", "\\"} THEN <<"\\", Head(s)>> ELSE <<Head(s)>>)
       \o QuoteBody(Tail(s))

Quote(s) == <<"\"">> \o QuoteBody(s) \o <<"\"">>

\* base64.StdEncoding.EncodeToString
RECURSIVE EncodeToString(_)
EncodeToString(s) ==
  IF Len(s) = 0 THEN <<>>
  ELSE LET b1 == Ord(s[1])
           b2 == IF Len(s) >= 2 THEN Ord(s[2]) ELSE 0
           b3 == IF Len(s) >= 3 THEN Ord(s[3]) ELSE 0
           c1 == Base64Alphabet[(b1 \div 4) + 1]
           c2 == Base64Alphabet[((b1 % 4) * 16 + (b2 \div 16)) + 1]
           c3 == Base64Alphabet[((b2 % 16) * 4 + (b3 \div 64)) + 1]
           c4 == Base64Alphabet[(b3 % 64) + 1]
       IN  IF Len(s) = 1 THEN <<c1, c2, "=", "=">>
           ELSE IF Len(s) = 2 THEN <<c1, c2, c3, "=">>
           ELSE <<c1, c2, c3, c4>> \o EncodeToString(SubSeq(s, 4, Len(s)))

\* One 4-character quantum of padded base64; last tells whether it is the
\* final quantum, the only one that may carry "=" padding.
DecodeQuantum(q, last) ==
  LET v(i) == B64Value(q[i])
      d1 == Chr(v(1) * 4 + (v(2) \div 16))
      d2 == Chr((v(2) % 16) * 16 + (v(3) \div 4))
      d3 == Chr((v(3) % 4) * 64 + v(4))
  IN  IF ~(IsB64Char(q[1]) /\ IsB64Char(q[2])) THEN [ok |-> FALSE, val |-> <<>>]
      ELSE IF q[3] = "=" THEN
             IF last /\ q[4] = "=" THEN [ok |-> TRUE, val |-> <<d1>>]
             ELSE [ok |-> FALSE, val |-> <<>>]
      ELSE IF ~IsB64Char(q[3]) THEN [ok |-> FALSE, val |-> <<>>]
      ELSE IF q[4] = "=" THEN
             IF last THEN [ok |-> TRUE, val |-> <<d1, d2>>]
             ELSE [ok |-> FALSE, val |-> <<>>]
      ELSE IF ~IsB64Char(q[4]) THEN [ok |-> FALSE, val |-> <<>>]
      ELSE [ok |-> TRUE, val |-> <<d1, d2, d3>>]

\* base64.StdEncoding.DecodeString: padded, standard alphabet.  The text of
\* the error is the library's "illegal base64 data at input byte N"; the
\* offset N is left out.
RECURSIVE DecodeString(_)
DecodeString(s) ==
  IF Len(s) = 0 THEN [ok |-> TRUE, val |-> <<>>]
  ELSE IF Len(s) < 4 THEN [ok |-> FALSE, val |-> <<>>]
  ELSE LET q    == DecodeQuantum(SubSeq(s, 1, 4), Len(s) = 4)
           rest == DecodeString(SubSeq(s, 5, Len(s)))
       IN  IF q.ok /\ rest.ok THEN [ok |-> TRUE, val |-> q.val \o rest.val]
           ELSE [ok |-> FALSE, val |-> <<>>]

(***************************************************************************)
(* net/url and encoding/json as the code uses them.                        *)
(***************************************************************************)

Digits == {"0", "1", "2", "3", "4", "5", "6", "7", "8", "9"}

IsAlnum(c) == Ord(c) \in (48..57) \cup (65..90) \cup (97..122)

\* The characters url.Parse accepts unescaped in a host (shouldEscape in
\* host mode): alphanumerics, the sub-delimiters, ":" "[" "]" "<" ">" and
\* the double quote, and the unreserved marks.
HostSafe(c) ==
  \/ IsAlnum(c)
  \/ c \in {"!", "$", "&", "'", "(", ")", "*", "+", ",", ";", "=", ":",
            "[", "]", "<", ">", "\"", "-", "_", ".", "~"}

\* validOptionalPort: empty, or ":" followed by digits only
validOptionalPort(port) ==
  \/ port = <<>>
  \/ /\ port[1] = ":"
     /\ \A i \in 2..Len(port) : port[i] \in Digits

\* The hexadecimal digits of a percent escape
HexDigits ==
  Digits \cup {"a", "b", "c", "d", "e", "f", "A", "B", "C", "D", "E", "F"}

\* The first malformed percent escape of s, as url.unescape reports it (at
\* most three characters from the "%"); <<>> when every "%" of s is followed
\* by two hexadecimal digits
badEscape(s) ==
  LET bad == {i \in 1..Len(s) :
                /\ s[i] = "%"
                /\ \/ i + 2 > Len(s)
                   \/ s[i + 1] \notin HexDigits
                   \/ s[i + 2] \notin HexDigits}
      first == CHOOSE i \in bad : \A j \in bad : i <= j
  IN  IF bad = {} THEN <<>>
      ELSE SubSeq(s, first, IF first + 2 > Len(s) THEN Len(s) ELSE first + 2)

\* The error of url.Parse for the text it names
parseError(named, text) ==
  [Host |-> <<>>, err |-> << <<"p","a","r","s","e"," ">> \o Quote(named) \o <<":"," ">> \o text >>]

\* url.Parse of "http://" followed by authority and path: the fragment is cut
\* at "#", the query at "?", the authority ends at the first "/", user
\* information ends at the last "@", the host must carry a valid optional
\* port and only host characters, and the path and then the fragment must
\* hold no malformed percent escape.  An error names the URL without its
\* fragment, but for the fragment's own error.  Bracketed IPv6 literals,
\* percent escapes in the host, user information and control characters are
\* outside the inputs of the model.  Host is the URL's Host field
\* ("hostname" or "hostname:port").
URLParse(rawURL) ==
  LET noScheme  == TrimPrefix(rawURL, <<"h","t","t","p",":","/","/">>)
      beforeEnd == SubSeq(noScheme, 1, IndexAny(noScheme, {"#", "?", "/"}) - 1)
      path      == SubSeq(noScheme, Len(beforeEnd) + 1, IndexAny(noScheme, {"#", "?"}) - 1)
      fragment  == SubSeq(noScheme, IndexAny(noScheme, {"#"}) + 1, Len(noScheme))
      noFragment == SubSeq(rawURL, 1, IndexAny(rawURL, {"#"}) - 1)
      host      == SubSeq(beforeEnd, LastIndexByte(beforeEnd, "@") + 1, Len(beforeEnd))
      colon     == LastIndexByte(host, ":")
      colonPort == IF colon = 0 THEN <<>> ELSE SubSeq(host, colon, Len(host))
  IN  IF ~validOptionalPort(colonPort)
      THEN parseError(noFragment, <<"i","n","v","a","l","i","d"," ","p","o","r","t"," ">> \o Quote(colonPort) \o <<" ","a","f","t","e","r"," ","h","o","s","t">>)
      ELSE IF \E i \in 1..Len(host) : ~HostSafe(host[i])
      THEN LET bad == host[CHOOSE i \in 1..Len(host) :
                             ~HostSafe(host[i]) /\ \A j \in 1..(i - 1) : HostSafe(host[j])]
           IN  parseError(noFragment, <<"i","n","v","a","l","i","d"," ","c","h","a","r","a","c","t","e","r"," ">> \o Quote(<<bad>>) \o <<" ","i","n"," ","h","o","s","t"," ","n","a","m","e">>)
      ELSE IF badEscape(path) # <<>>
      THEN parseError(noFragment, <<"i","n","v","a","l","i","d"," ","U","R","L"," ","e","s","c","a","p","e"," ">> \o Quote(badEscape(path)))
      ELSE IF badEscape(fragment) # <<>>
      THEN parseError(rawURL, <<"i","n","v","a","l","i","d"," ","U","R","L"," ","e","s","c","a","p","e"," ">> \o Quote(badEscape(fragment)))
      ELSE [Host |-> host, err |-> <<>>]

\* URL.Hostname: Host without a valid port
Hostname(Host) ==
  LET colon == LastIndexByte(Host, ":")
  IN  IF colon # 0 /\ validOptionalPort(SubSeq(Host, colon, Len(Host)))
      THEN SubSeq(Host, 1, colon - 1)
      ELSE Host

\* URL.Port: the digits after the last colon of Host, if they are a valid port
Port(Host) ==
  LET colon == LastIndexByte(Host, ":")
  IN  IF colon # 0 /\ validOptionalPort(SubSeq(Host, colon, Len(Host)))
      THEN SubSeq(Host, colon + 1, Len(Host))
      ELSE <<>>

\* A JSON document is its parse: kind "invalid" for bytes that are not JSON,
\* "object" with its members (a function from key text to JSON value),
\* "string" with its text, "null", or "other" (number, boolean, array).
JSONInvalid == [kind |-> "invalid", members |-> <<>>, str |-> <<>>]
JSONNull == [kind |-> "null", members |-> <<>>, str |-> <<>>]
JSONOther == [kind |-> "other", members |-> <<>>, str |-> <<>>]
JSONString(s) == [kind |-> "string", members |-> <<>>, str |-> s]
JSONObject(m) == [kind |-> "object", members |-> m, str |-> <<>>]

JSONSyntaxError == <<"i","n","v","a","l","i","d"," ","c","h","a","r","a","c","t","e","r"," ","l","o","o","k","i","n","g"," ","f","o","r"," ","b","e","g","i","n","n","i","n","g"," ","o","f"," ","v","a","l","u","e">>
JSONTypeError == <<"j","s","o","n",":"," ","c","a","n","n","o","t"," ","u","n","m","a","r","s","h","a","l"," ","v","a","l","u","e"," ","i","n","t","o"," ","G","o"," ","v","a","l","u","e">>

\* DockerAuthConfig (json tags username, password, auth, email; omitempty)
DockerAuthConfig(username, password, auth, email) ==
  [Username |-> username, Password |-> password, Auth |-> auth, Email |-> email]

jsonUsername == <<"u","s","e","r","n","a","m","e">>
jsonPassword == <<"p","a","s","s","w","o","r","d">>
jsonAuth == <<"a","u","t","h">>
jsonEmail == <<"e","m","a","i","l">>
jsonAuths == <<"a","u","t","h","s">>

\* A string field of a struct: absent or null leaves the zero value, a
\* string sets it, anything else is a type error.
FieldOK(v, name) ==
  name \in DOMAIN v.members => v.members[name].kind \in {"string", "null"}

FieldOf(v, name) ==
  IF name \in DOMAIN v.members /\ v.members[name].kind = "string"
  THEN v.members[name].str
  ELSE <<>>

\* json.Unmarshal of one value into a DockerAuthConfig
AuthConfigOK(v) ==
  \/ v.kind = "null"
  \/ /\ v.kind = "object"
     /\ \A name \in {jsonUsername, jsonPassword, jsonAuth, jsonEmail} : FieldOK(v, name)

AuthConfigOf(v) ==
  DockerAuthConfig(FieldOf(v, jsonUsername), FieldOf(v, jsonPassword),
                   FieldOf(v, jsonAuth), FieldOf(v, jsonEmail))

\* json.Unmarshal of one value into a map[string]DockerAuthConfig
AuthMapOK(v) ==
  \/ v.kind = "null"
  \/ /\ v.kind = "object"
     /\ \A k \in DOMAIN v.members : AuthConfigOK(v.members[k])

AuthMapOf(v) == [k \in DOMAIN v.members |-> AuthConfigOf(v.members[k])]

\* json.Unmarshal(data, &config) for config of type DockerConfig
UnmarshalDockerConfig(data) ==
  IF data.kind = "invalid" THEN [val |-> <<>>, err |-> <<JSONSyntaxError>>]
  ELSE IF ~AuthMapOK(data) THEN [val |-> <<>>, err |-> <<JSONTypeError>>]
  ELSE [val |-> AuthMapOf(data), err |-> <<>>]

\* json.Unmarshal(data, &config) for config of type DockerConfigJSON: the
\* member "auths" fills Auths, every other member is ignored.
UnmarshalDockerConfigJSON(data) ==
  IF data.kind = "invalid" THEN [val |-> <<>>, err |-> <<JSONSyntaxError>>]
  ELSE IF data.kind \notin {"object", "null"} THEN [val |-> <<>>, err |-> <<JSONTypeError>>]
  ELSE IF jsonAuths \notin DOMAIN data.members THEN [val |-> <<>>, err |-> <<>>]
  ELSE IF ~AuthMapOK(data.members[jsonAuths]) THEN [val |-> <<>>, err |-> <<JSONTypeError>>]
  ELSE [val |-> AuthMapOf(data.members[jsonAuths]), err |-> <<>>]

(***************************************************************************)
(* k8s.io/api/core/v1 names the code refers to.                            *)
(***************************************************************************)
SecretTypeDockerConfigJson == <<"k","u","b","e","r","n","e","t","e","s",".","i","o","/","d","o","c","k","e","r","c","o","n","f","i","g","j","s","o","n">>
SecretTypeDockercfg == <<"k","u","b","e","r","n","e","t","e","s",".","i","o","/","d","o","c","k","e","r","c","f","g">>
SecretTypeOpaque == <<"O","p","a","q","u","e">>
DockerConfigJsonKey == <<".","d","o","c","k","e","r","c","o","n","f","i","g","j","s","o","n">>
DockerConfigKey == <<".","d","o","c","k","e","r","c","f","g">>
EventTypeWarning == "Warning"

(***************************************************************************)
(* pkg/secretutils                                                         *)
(***************************************************************************)

\* A (value, error) pair returned by a Go function
Return(val, err) == [val |-> val, err |-> err]

Errorf(text) == <<text>>

ociScheme == <<"o","c","i",":","/","/">>

\* Variant of extractRegistryHost that leaves the port out
extractRegistryHost_dropPort(imageURL) ==
  IF ~HasPrefix(imageURL, ociScheme)
  THEN Return(<<>>, Errorf(<<"i","m","a","g","e"," ","U","R","L"," ","d","o","e","s"," ","n","o","t"," ","h","a","v","e"," ","o","c","i",":","/","/"," ","s","c","h","e","m","e",":"," ">> \o imageURL))
  ELSE LET urlWithoutScheme == TrimPrefix(imageURL, ociScheme)
           parsedURL == URLParse(<<"h","t","t","p",":","/","/">> \o urlWithoutScheme)
           host == Hostname(parsedURL.Host)
       IN  IF parsedURL.err # <<>>
           THEN Return(<<>>, Errorf(<<"f","a","i","l","e","d"," ","t","o"," ","p","a","r","s","e"," ","i","m","a","g","e"," ","U","R","L",":"," ">> \o parsedURL.err[1]))
           ELSE IF host = <<>>
           THEN Return(<<>>, Errorf(<<"f","a","i","l","e","d"," ","t","o"," ","e","x","t","r","a","c","t"," ","h","o","s","t","n","a","m","e"," ","f","r","o","m"," ","i","m","a","g","e"," ","U","R","L",":"," ">> \o imageURL))
           ELSE Return(host, <<>>)

\* extractRegistryHost: the registry host of an OCI image URL
extractRegistryHost(imageURL) ==
  IF ~HasPrefix(imageURL, ociScheme)
  THEN Return(<<>>, Errorf(<<"i","m","a","g","e"," ","U","R","L"," ","d","o","e","s"," ","n","o","t"," ","h","a","v","e"," ","o","c","i",":","/","/"," ","s","c","h","e","m","e",":"," ">> \o imageURL))
  ELSE LET urlWithoutScheme == TrimPrefix(imageURL, ociScheme)
           parsedURL == URLParse(<<"h","t","t","p",":","/","/">> \o urlWithoutScheme)
           host == Hostname(parsedURL.Host)
       IN  IF parsedURL.err # <<>>
           THEN Return(<<>>, Errorf(<<"f","a","i","l","e","d"," ","t","o"," ","p","a","r","s","e"," ","i","m","a","g","e"," ","U","R","L",":"," ">> \o parsedURL.err[1]))
           ELSE IF host = <<>>
           THEN Return(<<>>, Errorf(<<"f","a","i","l","e","d"," ","t","o"," ","e","x","t","r","a","c","t"," ","h","o","s","t","n","a","m","e"," ","f","r","o","m"," ","i","m","a","g","e"," ","U","R","L",":"," ">> \o imageURL))
           ELSE IF Port(parsedURL.Host) # <<>>
           THEN Return(parsedURL.Host, <<>>)
           ELSE Return(host, <<>>)

\* Variant of isDockerHub that does not know the index.docker.io name
isDockerHub_noIndex(registryHost) ==
  \/ registryHost = <<"d","o","c","k","e","r",".","i","o">>
  \/ HasPrefix(registryHost, <<"d","o","c","k","e","r",".","i","o",":">>)

\* The host is Docker Hub under one of its names, with or without a port
isDockerHub(registryHost) ==
  \/ registryHost = <<"d","o","c","k","e","r",".","i","o">>
  \/ registryHost = <<"i","n","d","e","x",".","d","o","c","k","e","r",".","i","o">>
  \/ HasPrefix(registryHost, <<"d","o","c","k","e","r",".","i","o",":">>)
  \/ HasPrefix(registryHost, <<"i","n","d","e","x",".","d","o","c","k","e","r",".","i","o",":">>)

\* Variant of dockerHubKeys that knows the legacy index URL only
dockerHubKeys_legacyOnly(registryHost) ==
  << <<"h","t","t","p","s",":","/","/","i","n","d","e","x",".","d","o","c","k","e","r",".","i","o","/","v","1","/">>, registryHost >>

dockerHubKeys(registryHost) ==
  << <<"h","t","t","p","s",":","/","/","i","n","d","e","x",".","d","o","c","k","e","r",".","i","o","/","v","1","/">>,
     <<"i","n","d","e","x",".","d","o","c","k","e","r",".","i","o">>,
     <<"d","o","c","k","e","r",".","i","o">>,
     <<"h","t","t","p","s",":","/","/","d","o","c","k","e","r",".","i","o">>,
     <<"h","t","t","p","s",":","/","/","i","n","d","e","x",".","d","o","c","k","e","r",".","i","o">>,
     registryHost >>

\* Variant of lookupKeys that tries the http:// key before the https:// key
lookupKeys_httpFirst(registryHost) ==
  << registryHost,
     <<"h","t","t","p",":","/","/">> \o registryHost,
     <<"h","t","t","p","s",":","/","/">> \o registryHost,
     registryHost \o <<"/","v","1","/">>,
     registryHost \o <<"/","v","2","/">>,
     <<"h","t","t","p","s",":","/","/">> \o registryHost \o <<"/","v","1","/">>,
     <<"h","t","t","p","s",":","/","/">> \o registryHost \o <<"/","v","2","/">> >>
  \o (IF isDockerHub(registryHost) THEN dockerHubKeys(registryHost) ELSE <<>>)

\* Variant of lookupKeys without the key with the /v2/ suffix
lookupKeys_noV2(registryHost) ==
  << registryHost,
     <<"h","t","t","p","s",":","/","/">> \o registryHost,
     <<"h","t","t","p",":","/","/">> \o registryHost,
     registryHost \o <<"/","v","1","/">>,
     <<"h","t","t","p","s",":","/","/">> \o registryHost \o <<"/","v","1","/">>,
     <<"h","t","t","p","s",":","/","/">> \o registryHost \o <<"/","v","2","/">> >>
  \o (IF isDockerHub(registryHost) THEN dockerHubKeys(registryHost) ELSE <<>>)

\* The keys findAuthConfig looks up, in the order it looks them up
lookupKeys(registryHost) ==
  << registryHost,
     <<"h","t","t","p","s",":","/","/">> \o registryHost,
     <<"h","t","t","p",":","/","/">> \o registryHost,
     registryHost \o <<"/","v","1","/">>,
     registryHost \o <<"/","v","2","/">>,
     <<"h","t","t","p","s",":","/","/">> \o registryHost \o <<"/","v","1","/">>,
     <<"h","t","t","p","s",":","/","/">> \o registryHost \o <<"/","v","2","/">> >>
  \o (IF isDockerHub(registryHost) THEN dockerHubKeys(registryHost) ELSE <<>>)

\* findAuthConfig: the entry under the first looked-up key the map holds
findAuthConfig(auths, registryHost) ==
  LET keys == lookupKeys(registryHost)
      hits == {i \in 1..Len(keys) : keys[i] \in DOMAIN auths}
  IN  IF hits # {}
      THEN LET first == CHOOSE i \in hits : \A j \in hits : i <= j
           IN  Return(<<auths[keys[first]]>>, <<>>)
      ELSE Return(<<>>, Errorf(<<"r","e","g","i","s","t","r","y"," ">> \o registryHost \o <<" ","n","o","t"," ","f","o","u","n","d"," ","i","n"," ","a","u","t","h"," ","c","o","n","f","i","g">>))

\* Variant of parseDockerConfigJSON that goes on after a failed unmarshal
parseDockerConfigJSON_ignoreErr(data, registryHost) ==
  findAuthConfig(UnmarshalDockerConfigJSON(data).val, registryHost)

\* parseDockerConfigJSON: the current format, {"auths": {...}}
parseDockerConfigJSON(data, registryHost) ==
  LET config == UnmarshalDockerConfigJSON(data)
  IN  IF config.err # <<>>
      THEN Return(<<>>, Errorf(<<"f","a","i","l","e","d"," ","t","o"," ","u","n","m","a","r","s","h","a","l"," ","d","o","c","k","e","r"," ","c","o","n","f","i","g"," ","J","S","O","N",":"," ">> \o config.err[1]))
      ELSE findAuthConfig(config.val, registryHost)

\* parseDockerConfig: the legacy format, the map itself
parseDockerConfig(data, registryHost) ==
  LET config == UnmarshalDockerConfig(data)
  IN  IF config.err # <<>>
      THEN Return(<<>>, Errorf(<<"f","a","i","l","e","d"," ","t","o"," ","u","n","m","a","r","s","h","a","l"," ","d","o","c","k","e","r"," ","c","o","n","f","i","g",":"," ">> \o config.err[1]))
      ELSE findAuthConfig(config.val, registryHost)

\* Variant of extractCredentials that prefers the auth field to the explicit
\* pair
extractCredentials_authFirst(authConfig) ==
  IF authConfig.Auth # <<>>
  THEN LET decoded == DecodeString(authConfig.Auth)
           colon == IndexByte(decoded.val, ":")
       IN  IF ~decoded.ok
           THEN [username |-> <<>>, password |-> <<>>,
                 err |-> Errorf(<<"f","a","i","l","e","d"," ","t","o"," ","d","e","c","o","d","e"," ","a","u","t","h"," ","f","i","e","l","d",":"," ","i","l","l","e","g","a","l"," ","b","a","s","e","6","4"," ","d","a","t","a">>)]
           ELSE IF colon = 0
           THEN [username |-> <<>>, password |-> <<>>,
                 err |-> Errorf(<<"i","n","v","a","l","i","d"," ","a","u","t","h"," ","f","o","r","m","a","t",":"," ","e","x","p","e","c","t","e","d"," ","u","s","e","r","n","a","m","e",":","p","a","s","s","w","o","r","d">>)]
           ELSE [username |-> SubSeq(decoded.val, 1, colon - 1),
                 password |-> SubSeq(decoded.val, colon + 1, Len(decoded.val)),
                 err |-> <<>>]
  ELSE IF authConfig.Username # <<>> /\ authConfig.Password # <<>>
  THEN [username |-> authConfig.Username, password |-> authConfig.Password, err |-> <<>>]
  ELSE [username |-> <<>>, password |-> <<>>,
        err |-> Errorf(<<"n","o"," ","c","r","e","d","e","n","t","i","a","l","s"," ","f","o","u","n","d"," ","i","n"," ","a","u","t","h"," ","c","o","n","f","i","g">>)]

\* Variant of extractCredentials that splits the decoded auth field at its
\* last colon
extractCredentials_lastColon(authConfig) ==
  IF authConfig.Username # <<>> /\ authConfig.Password # <<>>
  THEN [username |-> authConfig.Username, password |-> authConfig.Password, err |-> <<>>]
  ELSE IF authConfig.Auth # <<>>
  THEN LET decoded == DecodeString(authConfig.Auth)
           colon == LastIndexByte(decoded.val, ":")
       IN  IF ~decoded.ok
           THEN [username |-> <<>>, password |-> <<>>,
                 err |-> Errorf(<<"f","a","i","l","e","d"," ","t","o"," ","d","e","c","o","d","e"," ","a","u","t","h"," ","f","i","e","l","d",":"," ","i","l","l","e","g","a","l"," ","b","a","s","e","6","4"," ","d","a","t","a">>)]
           ELSE IF colon = 0
           THEN [username |-> <<>>, password |-> <<>>,
                 err |-> Errorf(<<"i","n","v","a","l","i","d"," ","a","u","t","h"," ","f","o","r","m","a","t",":"," ","e","x","p","e","c","t","e","d"," ","u","s","e","r","n","a","m","e",":","p","a","s","s","w","o","r","d">>)]
           ELSE [username |-> SubSeq(decoded.val, 1, colon - 1),
                 password |-> SubSeq(decoded.val, colon + 1, Len(decoded.val)),
                 err |-> <<>>]
  ELSE [username |-> <<>>, password |-> <<>>,
        err |-> Errorf(<<"n","o"," ","c","r","e","d","e","n","t","i","a","l","s"," ","f","o","u","n","d"," ","i","n"," ","a","u","t","h"," ","c","o","n","f","i","g">>)]

\* extractCredentials: the explicit pair, else the decoded auth field split
\* at its first colon
extractCredentials(authConfig) ==
  IF authConfig.Username # <<>> /\ authConfig.Password # <<>>
  THEN [username |-> authConfig.Username, password |-> authConfig.Password, err |-> <<>>]
  ELSE IF authConfig.Auth # <<>>
  THEN LET decoded == DecodeString(authConfig.Auth)
           colon == IndexByte(decoded.val, ":")
       IN  IF ~decoded.ok
           THEN [username |-> <<>>, password |-> <<>>,
                 err |-> Errorf(<<"f","a","i","l","e","d"," ","t","o"," ","d","e","c","o","d","e"," ","a","u","t","h"," ","f","i","e","l","d",":"," ","i","l","l","e","g","a","l"," ","b","a","s","e","6","4"," ","d","a","t","a">>)]
           ELSE IF colon = 0
           THEN [username |-> <<>>, password |-> <<>>,
                 err |-> Errorf(<<"i","n","v","a","l","i","d"," ","a","u","t","h"," ","f","o","r","m","a","t",":"," ","e","x","p","e","c","t","e","d"," ","u","s","e","r","n","a","m","e",":","p","a","s","s","w","o","r","d">>)]
           ELSE [username |-> SubSeq(decoded.val, 1, colon - 1),
                 password |-> SubSeq(decoded.val, colon + 1, Len(decoded.val)),
                 err |-> <<>>]
  ELSE [username |-> <<>>, password |-> <<>>,
        err |-> Errorf(<<"n","o"," ","c","r","e","d","e","n","t","i","a","l","s"," ","f","o","u","n","d"," ","i","n"," ","a","u","t","h"," ","c","o","n","f","i","g">>)]

\* A failed step's error wrapped with the context of the step (%w)
wrapError(context, r) ==
  IF r.err # <<>> THEN Return(<<>>, Errorf(context \o r.err[1])) ELSE r

\* Variant of authConfigFromData that falls back to the legacy document when
\* the current one gives no entry
authConfigFromData_fallback(Data, registryHost) ==
  IF /\ DockerConfigJsonKey \in DOMAIN Data
     /\ \/ DockerConfigKey \notin DOMAIN Data
        \/ parseDockerConfigJSON(Data[DockerConfigJsonKey], registryHost).err = <<>>
  THEN wrapError(<<"f","a","i","l","e","d"," ","t","o"," ","p","a","r","s","e"," ","d","o","c","k","e","r","c","o","n","f","i","g","j","s","o","n",":"," ">>,
                 parseDockerConfigJSON(Data[DockerConfigJsonKey], registryHost))
  ELSE IF DockerConfigKey \in DOMAIN Data
  THEN wrapError(<<"f","a","i","l","e","d"," ","t","o"," ","p","a","r","s","e"," ","d","o","c","k","e","r","c","f","g",":"," ">>,
                 parseDockerConfig(Data[DockerConfigKey], registryHost))
  ELSE Return(<<>>, Errorf(<<"s","e","c","r","e","t"," ","d","o","e","s"," ","n","o","t"," ","c","o","n","t","a","i","n"," ">> \o DockerConfigJsonKey
                           \o <<" ","o","r"," ">> \o DockerConfigKey \o <<" ","k","e","y">>))

\* The auth entry for registryHost from the secret's data: the document
\* under the current key if the data holds it, else the one under the legacy
\* key
authConfigFromData(Data, registryHost) ==
  IF DockerConfigJsonKey \in DOMAIN Data
  THEN wrapError(<<"f","a","i","l","e","d"," ","t","o"," ","p","a","r","s","e"," ","d","o","c","k","e","r","c","o","n","f","i","g","j","s","o","n",":"," ">>,
                 parseDockerConfigJSON(Data[DockerConfigJsonKey], registryHost))
  ELSE IF DockerConfigKey \in DOMAIN Data
  THEN wrapError(<<"f","a","i","l","e","d"," ","t","o"," ","p","a","r","s","e"," ","d","o","c","k","e","r","c","f","g",":"," ">>,
                 parseDockerConfig(Data[DockerConfigKey], registryHost))
  ELSE Return(<<>>, Errorf(<<"s","e","c","r","e","t"," ","d","o","e","s"," ","n","o","t"," ","c","o","n","t","a","i","n"," ">> \o DockerConfigJsonKey
                           \o <<" ","o","r"," ">> \o DockerConfigKey \o <<" ","k","e","y">>))

\* Variant of encodeCredentials that joins the pair without the colon
encodeCredentials_noColon(creds) ==
  IF creds.err # <<>>
  THEN Return(<<>>, Errorf(<<"f","a","i","l","e","d"," ","t","o"," ","e","x","t","r","a","c","t"," ","c","r","e","d","e","n","t","i","a","l","s",":"," ">> \o creds.err[1]))
  ELSE Return(EncodeToString(creds.username \o creds.password), <<>>)

\* Variant of encodeCredentials that encodes what it was given also when the
\* extraction failed
encodeCredentials_keepOutput(creds) ==
  IF creds.err # <<>>
  THEN Return(EncodeToString(creds.username \o <<":">> \o creds.password),
              Errorf(<<"f","a","i","l","e","d"," ","t","o"," ","e","x","t","r","a","c","t"," ","c","r","e","d","e","n","t","i","a","l","s",":"," ">> \o creds.err[1]))
  ELSE Return(EncodeToString(creds.username \o <<":">> \o creds.password), <<>>)

\* base64("username:password") of the extracted pair creds
encodeCredentials(creds) ==
  IF creds.err # <<>>
  THEN Return(<<>>, Errorf(<<"f","a","i","l","e","d"," ","t","o"," ","e","x","t","r","a","c","t"," ","c","r","e","d","e","n","t","i","a","l","s",":"," ">> \o creds.err[1]))
  ELSE Return(EncodeToString(creds.username \o <<":">> \o creds.password), <<>>)

\* The credentials of the auth entry found, if one was found
credentialsOf(authConfig, registryHost) ==
  IF authConfig.err # <<>> THEN Return(<<>>, authConfig.err)
  ELSE IF authConfig.val = <<>>
  THEN Return(<<>>, Errorf(<<"n","o"," ","c","r","e","d","e","n","t","i","a","l","s"," ","f","o","u","n","d"," ","f","o","r"," ","r","e","g","i","s","t","r","y"," ">> \o registryHost))
  ELSE encodeCredentials(extractCredentials(authConfig.val[1]))

\* The credentials for the extracted registry host, if it was extracted
credentialsForHost(Data, registryHost) ==
  IF registryHost.err # <<>>
  THEN Return(<<>>, Errorf(<<"f","a","i","l","e","d"," ","t","o"," ","e","x","t","r","a","c","t"," ","r","e","g","i","s","t","r","y"," ","h","o","s","t"," ","f","r","o","m"," ","i","m","a","g","e"," ","U","R","L",":"," ">>
                           \o registryHost.err[1]))
  ELSE credentialsOf(authConfigFromData(Data, registryHost.val), registryHost.val)

\* ExtractRegistryCredentials: base64("username:password") for the registry
\* of imageURL, from the secret's docker config
ExtractRegistryCredentials(secret, imageURL) ==
  IF secret = <<>> THEN Return(<<>>, Errorf(<<"s","e","c","r","e","t"," ","i","s"," ","n","i","l">>))
  ELSE credentialsForHost(secret[1].Data, extractRegistryHost(imageURL))

(***************************************************************************)
(* pkg/imageauthvalidator                                                  *)
(***************************************************************************)
ReasonUnknown == "Unknown"
ReasonNotRequired == "NotRequired"
ReasonValid == "Valid"
ReasonSecretNotFound == "SecretNotFound"
ReasonWrongType == "WrongType"
ReasonParseError == "ParseError"
ReasonRegistryEntryMissing == "RegistryEntryMissing"

EventAuthSecretIrrelevant == "ImageAuthIrrelevant"
EventAuthFormatUnsupported == "ImageAuthFormatUnsupported"

\* Result, as Validate first builds it
Result ==
  [Secret |-> <<>>, Valid |-> FALSE, Reason |-> ReasonUnknown, Message |-> <<>>,
   OCIRelevant |-> FALSE, Credentials |-> <<>>]

\* Variant of isOCI that compares the scheme as written
isOCI_caseSensitive(url) == HasPrefix(url, <<"o","c","i",":","/","/">>)

\* isOCI: the URL starts with "oci://" in any letter case
isOCI(url) == HasPrefix(ToLower(url), <<"o","c","i",":","/","/">>)

\* Variant of isAllowedDockerConfigType that forgets the legacy type
isAllowedDockerConfigType_jsonOnly(t) == t = SecretTypeDockerConfigJson

isAllowedDockerConfigType(t) ==
  t = SecretTypeDockerConfigJson \/ t = SecretTypeDockercfg

\* recorder.Eventf: one event of the notification sink
Eventf(eventtype, reason, message) ==
  [eventtype |-> eventtype, reason |-> reason, message |-> message]

\* Variant of Get that looks the name up in every namespace
Get_anyNamespace(client, Namespace, Name) ==
  LET found == {s \in client.secrets : s.Name = Name}
  IN  IF client.fail # <<>>
      THEN [sec |-> <<>>, err |-> client.fail, IsNotFound |-> FALSE]
      ELSE IF found = {}
      THEN [sec |-> <<>>, IsNotFound |-> TRUE,
            err |-> Errorf(<<"s","e","c","r","e","t","s"," ">> \o Quote(Name) \o <<" ","n","o","t"," ","f","o","u","n","d">>)]
      ELSE [sec |-> <<CHOOSE s \in found : TRUE>>, err |-> <<>>, IsNotFound |-> FALSE]

\* client.Get of a Secret by namespace and name: the stored object, or the
\* NotFound error, or whatever other error the API call ends in
Get(client, Namespace, Name) ==
  LET found == {s \in client.secrets : s.Namespace = Namespace /\ s.Name = Name}
  IN  IF client.fail # <<>>
      THEN [sec |-> <<>>, err |-> client.fail, IsNotFound |-> FALSE]
      ELSE IF found = {}
      THEN [sec |-> <<>>, IsNotFound |-> TRUE,
            err |-> Errorf(<<"s","e","c","r","e","t","s"," ">> \o Quote(Name) \o <<" ","n","o","t"," ","f","o","u","n","d">>)]
      ELSE [sec |-> <<CHOOSE s \in found : TRUE>>, err |-> <<>>, IsNotFound |-> FALSE]

\* Variant of imageURLNotSet that takes an empty URL for a reference
imageURLNotSet_nilOnly(img) == img = <<>>

\* The image is nil or its URL is empty
imageURLNotSet(img) == img = <<>> \/ img[1].URL = <<>>

\* Variant of noAuthSecretReferenced that takes an empty name for a reference
noAuthSecretReferenced_nilOnly(img) == img[1].AuthSecretName = <<>>

\* No per-host secret is referenced: authSecretName is nil or empty
noAuthSecretReferenced(img) ==
  img[1].AuthSecretName = <<>> \/ img[1].AuthSecretName[1] = <<>>

\* Variant of irrelevantEvents that warns only while the recorder holds no
\* event yet
irrelevantEvents_once(v_recorder, res, secretName, URL) ==
  IF ~res.OCIRelevant /\ v_recorder # <<>> /\ v_recorder[1] = <<>>
  THEN << Eventf(EventTypeWarning, EventAuthSecretIrrelevant,
                 <<"a","u","t","h","S","e","c","r","e","t","N","a","m","e","=">> \o Quote(secretName)
                 \o <<" ","i","s"," ","s","e","t"," ","b","u","t"," ","i","m","a","g","e"," ","U","R","L"," ","i","s"," ","n","o","t"," ","o","c","i",":","/","/"," ","(">> \o URL \o <<")">>) >>
  ELSE <<>>

\* Variant of irrelevantEvents that warns for an OCI image as well
irrelevantEvents_always(v_recorder, res, secretName, URL) ==
  IF v_recorder # <<>>
  THEN << Eventf(EventTypeWarning, EventAuthSecretIrrelevant,
                 <<"a","u","t","h","S","e","c","r","e","t","N","a","m","e","=">> \o Quote(secretName)
                 \o <<" ","i","s"," ","s","e","t"," ","b","u","t"," ","i","m","a","g","e"," ","U","R","L"," ","i","s"," ","n","o","t"," ","o","c","i",":","/","/"," ","(">> \o URL \o <<")">>) >>
  ELSE <<>>

\* The warning for a secret set on an image that is not an OCI image
irrelevantEvents(v_recorder, res, secretName, URL) ==
  IF ~res.OCIRelevant /\ v_recorder # <<>>
  THEN << Eventf(EventTypeWarning, EventAuthSecretIrrelevant,
                 <<"a","u","t","h","S","e","c","r","e","t","N","a","m","e","=">> \o Quote(secretName)
                 \o <<" ","i","s"," ","s","e","t"," ","b","u","t"," ","i","m","a","g","e"," ","U","R","L"," ","i","s"," ","n","o","t"," ","o","c","i",":","/","/"," ","(">> \o URL \o <<")">>) >>
  ELSE <<>>

\* Variant of onGetError that drops the error of a failed Get
onGetError_swallow(res, got, secretName, Namespace) ==
  IF got.IsNotFound
  THEN [res |-> [res EXCEPT !.Reason = ReasonSecretNotFound,
                            !.Message = <<"s","e","c","r","e","t"," ">> \o Quote(secretName)
                                        \o <<" ","n","o","t"," ","f","o","u","n","d"," ","i","n"," ","n","a","m","e","s","p","a","c","e"," ">>
                                        \o Quote(Namespace)],
        err |-> <<>>]
  ELSE [res |-> res, err |-> <<>>]

\* What Validate returns when Get fails: SecretNotFound for a missing
\* secret, the error itself for any other failure
onGetError(res, got, secretName, Namespace) ==
  IF got.IsNotFound
  THEN [res |-> [res EXCEPT !.Reason = ReasonSecretNotFound,
                            !.Message = <<"s","e","c","r","e","t"," ">> \o Quote(secretName)
                                        \o <<" ","n","o","t"," ","f","o","u","n","d"," ","i","n"," ","n","a","m","e","s","p","a","c","e"," ">>
                                        \o Quote(Namespace)],
        err |-> <<>>]
  ELSE [res |-> res, err |-> got.err]

\* The result for a secret of an unsupported type
onWrongType(res, secretName, Type) ==
  [res EXCEPT !.Reason = ReasonWrongType,
              !.Message = <<"s","e","c","r","e","t"," ">> \o Quote(secretName)
                          \o <<" ","h","a","s"," ","u","n","s","u","p","p","o","r","t","e","d"," ","t","y","p","e"," ">> \o Quote(Type)
                          \o <<";"," ","e","x","p","e","c","t","e","d"," ">> \o Quote(SecretTypeDockerConfigJson)
                          \o <<" ","o","r"," ">> \o Quote(SecretTypeDockercfg)]

\* Variant of wrongTypeEvents that reports under the result's reason
wrongTypeEvents_resultReason(v_recorder, secretName, Type) ==
  IF v_recorder # <<>>
  THEN << Eventf(EventTypeWarning, ReasonWrongType,
                 <<"S","e","c","r","e","t"," ">> \o Quote(secretName)
                 \o <<" ","h","a","s"," ","u","n","s","u","p","p","o","r","t","e","d"," ","t","y","p","e"," ">> \o Quote(Type)) >>
  ELSE <<>>

\* The warning for a secret of an unsupported type
wrongTypeEvents(v_recorder, secretName, Type) ==
  IF v_recorder # <<>>
  THEN << Eventf(EventTypeWarning, EventAuthFormatUnsupported,
                 <<"S","e","c","r","e","t"," ">> \o Quote(secretName)
                 \o <<" ","h","a","s"," ","u","n","s","u","p","p","o","r","t","e","d"," ","t","y","p","e"," ">> \o Quote(Type)) >>
  ELSE <<>>

\* The result when ExtractRegistryCredentials fails with error text errText:
\* ParseError, turned into RegistryEntryMissing when the text holds "not
\* found in auth config"
onExtractError(res, secretName, URL, errText) ==
  IF Contains(errText, <<"n","o","t"," ","f","o","u","n","d"," ","i","n"," ","a","u","t","h"," ","c","o","n","f","i","g">>)
  THEN [res EXCEPT !.Reason = ReasonRegistryEntryMissing,
                   !.Message = <<"s","e","c","r","e","t"," ">> \o Quote(secretName)
                               \o <<" ","d","o","e","s"," ","n","o","t"," ","c","o","n","t","a","i","n"," ","c","r","e","d","e","n","t","i","a","l","s"," ","f","o","r"," ","r","e","g","i","s","t","r","y"," ","i","n"," ">>
                               \o Quote(URL)]
  ELSE [res EXCEPT !.Reason = ReasonParseError,
                   !.Message = <<"f","a","i","l","e","d"," ","t","o"," ","e","x","t","r","a","c","t"," ","c","r","e","d","e","n","t","i","a","l","s"," ","f","r","o","m"," ","s","e","c","r","e","t"," ">>
                               \o Quote(secretName) \o <<":"," ">> \o errText]

\* Variant of extractErrorEvents that reports a missing registry entry under
\* the reason of the result
extractErrorEvents_resultReason(v_recorder, secretName, errText) ==
  IF v_recorder # <<>>
  THEN << Eventf(EventTypeWarning,
                 IF Contains(errText, <<"n","o","t"," ","f","o","u","n","d"," ","i","n"," ","a","u","t","h"," ","c","o","n","f","i","g">>)
                 THEN ReasonRegistryEntryMissing ELSE ReasonParseError,
                 <<"F","a","i","l","e","d"," ","t","o"," ","e","x","t","r","a","c","t"," ","c","r","e","d","e","n","t","i","a","l","s"," ","f","r","o","m"," ","s","e","c","r","e","t"," ">>
                 \o Quote(secretName) \o <<":"," ">> \o errText) >>
  ELSE <<>>

\* The warning when ExtractRegistryCredentials fails
extractErrorEvents(v_recorder, secretName, errText) ==
  IF v_recorder # <<>>
  THEN << Eventf(EventTypeWarning, ReasonParseError,
                 <<"F","a","i","l","e","d"," ","t","o"," ","e","x","t","r","a","c","t"," ","c","r","e","d","e","n","t","i","a","l","s"," ","f","r","o","m"," ","s","e","c","r","e","t"," ">>
                 \o Quote(secretName) \o <<":"," ">> \o errText) >>
  ELSE <<>>

\* Variant of onValid that does not attach the credentials
onValid_noCredentials(res, sec, credentials) ==
  [res EXCEPT !.Secret = <<sec>>, !.Valid = TRUE, !.Reason = ReasonValid,
              !.Message = <<"a","u","t","h"," ","s","e","c","r","e","t"," ","p","r","e","s","e","n","t"," ","a","n","d"," ","o","f"," ","a"," ","s","u","p","p","o","r","t","e","d"," ","t","y","p","e">>]

\* Variant of onValid that does not attach the secret
onValid_noSecret(res, sec, credentials) ==
  [res EXCEPT !.Credentials = credentials, !.Valid = TRUE,
              !.Reason = ReasonValid,
              !.Message = <<"a","u","t","h"," ","s","e","c","r","e","t"," ","p","r","e","s","e","n","t"," ","a","n","d"," ","o","f"," ","a"," ","s","u","p","p","o","r","t","e","d"," ","t","y","p","e">>]

\* The result for a secret that passed every check
onValid(res, sec, credentials) ==
  [res EXCEPT !.Credentials = credentials, !.Secret = <<sec>>, !.Valid = TRUE,
              !.Reason = ReasonValid,
              !.Message = <<"a","u","t","h"," ","s","e","c","r","e","t"," ","p","r","e","s","e","n","t"," ","a","n","d"," ","o","f"," ","a"," ","s","u","p","p","o","r","t","e","d"," ","t","y","p","e">>]

\* What a call of Validate gives: the result, the error, the events handed
\* to the recorder, in order, and the Get calls made on the client (none,
\* until validateSecret makes one)
Returns(r, e, evs) == [res |-> <<r>>, err |-> e, events |-> evs, gets |-> <<>>]

\* Validate once the credentials of an OCI image have been extracted, or
\* not: ParseError or RegistryEntryMissing with a warning, or Valid with the
\* credentials
afterExtract(v_recorder, res, secretName, URL, sec, extracted) ==
  IF extracted.err # <<>>
  THEN Returns(onExtractError(res, secretName, URL, extracted.err[1]), <<>>,
               extractErrorEvents(v_recorder, secretName, extracted.err[1]))
  ELSE Returns(onValid(res, sec, extracted.val), <<>>, <<>>)

\* Validate once the secret sec is fetched: the type check, then for an OCI
\* image the extraction of the credentials
checkSecret(v_recorder, res, secretName, URL, sec) ==
  IF ~isAllowedDockerConfigType(sec.Type)
  THEN Returns(onWrongType(res, secretName, sec.Type), <<>>,
               wrongTypeEvents(v_recorder, secretName, sec.Type))
  ELSE IF res.OCIRelevant
  THEN afterExtract(v_recorder, res, secretName, URL, sec,
                    ExtractRegistryCredentials(<<sec>>, URL))
  ELSE Returns(onValid(res, sec, res.Credentials), <<>>, <<>>)

\* Validate once Get has returned got
afterGet(v_recorder, res, secretName, Namespace, URL, got) ==
  IF got.err # <<>>
  THEN Returns(onGetError(res, got, secretName, Namespace).res,
               onGetError(res, got, secretName, Namespace).err, <<>>)
  ELSE checkSecret(v_recorder, res, secretName, URL, got.sec[1])

\* Variant of validateSecret that stops after the warning for an image that
\* is not an OCI image
validateSecret_stopAfterWarning(v_c, v_recorder, Namespace, URL, secretName, res) ==
  IF ~res.OCIRelevant
  THEN Returns([res EXCEPT !.Reason = ReasonNotRequired], <<>>,
               irrelevantEvents(v_recorder, res, secretName, URL))
  ELSE [afterGet(v_recorder, res, secretName, Namespace, URL, Get(v_c, Namespace, secretName))
        EXCEPT !.gets = << [Namespace |-> Namespace, Name |-> secretName,
                            eventsBefore |-> 0] >>]

\* Validate for a host whose image references a secret: the warning for an
\* image that is not an OCI image comes first, then the secret is fetched;
\* the Get call is noted with its key and the number of events emitted
\* before it
validateSecret(v_c, v_recorder, Namespace, URL, secretName, res) ==
  [afterGet(v_recorder, res, secretName, Namespace, URL, Get(v_c, Namespace, secretName))
   EXCEPT !.events = irrelevantEvents(v_recorder, res, secretName, URL) \o @,
          !.gets = << [Namespace |-> Namespace, Name |-> secretName,
                       eventsBefore |-> Len(irrelevantEvents(v_recorder, res, secretName, URL))] >>]

\* validator.Validate for a validator with client v_c and recorder
\* v_recorder (<<>> when nil)
Validate(v_c, v_recorder, host) ==
  IF imageURLNotSet(host.Spec.Image)
  THEN Returns([Result EXCEPT !.Message = <<"i","m","a","g","e"," ","U","R","L"," ","n","o","t"," ","s","e","t">>], <<>>, <<>>)
  ELSE IF noAuthSecretReferenced(host.Spec.Image)
  THEN Returns([Result EXCEPT !.OCIRelevant = isOCI(host.Spec.Image[1].URL),
                              !.Reason = ReasonNotRequired,
                              !.Message = <<"n","o"," ","p","e","r","-","h","o","s","t"," ","a","u","t","h"," ","s","e","c","r","e","t"," ","r","e","f","e","r","e","n","c","e","d">>],
               <<>>, <<>>)
  ELSE validateSecret(v_c, v_recorder, host.Namespace, host.Spec.Image[1].URL,
                      host.Spec.Image[1].AuthSecretName[1],
                      [Result EXCEPT !.OCIRelevant = isOCI(host.Spec.Image[1].URL)])

(***************************************************************************)
(* The inputs: hosts, secrets and docker configs like those of the tests.  *)
(***************************************************************************)

\* The most keys an auths map of an input holds
MaxKeys == 2

\* Image URLs: the empty URL; OCI references without and with a port, to
\* Docker Hub, with an uppercase scheme, with nothing after the scheme, with
\* a port that is no number, with a double quote in the host; a plain http
\* URL; and an uppercase-scheme reference whose text holds the phrase the
\* validator searches the resolver's error for.
ImageURLs ==
  { <<>>,
    <<"o","c","i",":","/","/","r",".","i","o","/","a",":","t">>,
    <<"o","c","i",":","/","/","r",".","i","o",":","5","0","0","0","/","a">>,
    <<"o","c","i",":","/","/","d","o","c","k","e","r",".","i","o","/","a">>,
    <<"O","C","I",":","/","/","r",".","i","o","/","a">>,
    <<"o","c","i",":","/","/">>,
    <<"o","c","i",":","/","/","r",".","i","o",":","x","/","a">>,
    <<"o","c","i",":","/","/","a","\"","b","/","x">>,
    <<"h","t","t","p",":","/","/","r",".","i","o","/","a",".","q","c","o","w","2">>,
    <<"O","C","I",":","/","/","n","o","t"," ","f","o","u","n","d"," ","i","n"," ","a","u","t","h"," ","c","o","n","f","i","g">>,
    <<"O","c","i",":","/","/","r",".","i","o","/","n","o","t"," ","f","o","u","n","d"," ","i","n"," ","a","u","t","h"," ","c","o","n","f","i","g">> }

\* authSecretName: nil, the empty name, a name
SecretNames == { <<>>, << <<>> >>, << <<"s","1">> >> }

Images ==
  { <<>> } \cup
  { <<[URL |-> u, AuthSecretName |-> n]>> : u \in ImageURLs, n \in SecretNames }

BareMetalHosts == { [Namespace |-> <<"n","s","1">>, Spec |-> [Image |-> i]] : i \in Images }

\* The JSON object of an auth entry: its non-empty fields
EntryJSON(e) ==
  JSONObject(
    [name \in ({jsonUsername} \cap (IF e.Username # <<>> THEN {jsonUsername} ELSE {}))
              \cup ({jsonPassword} \cap (IF e.Password # <<>> THEN {jsonPassword} ELSE {}))
              \cup ({jsonAuth} \cap (IF e.Auth # <<>> THEN {jsonAuth} ELSE {}))
     |-> JSONString(IF name = jsonUsername THEN e.Username
                    ELSE IF name = jsonPassword THEN e.Password
                    ELSE e.Auth)])

\* Keys a stored docker config may hold, each with an entry of its own
StoreKeys ==
  << <<"r",".","i","o">>,
     <<"h","t","t","p","s",":","/","/","r",".","i","o">>,
     <<"r",".","i","o",":","5","0","0","0">>,
     <<"h","t","t","p","s",":","/","/","i","n","d","e","x",".","d","o","c","k","e","r",".","i","o","/","v","1","/">>,
     <<"o","t","h","e","r",".","i","o">> >>

StoreEntry(i) ==
  DockerAuthConfig(<<"u", Ascii[17 + i]>>, <<"p", Ascii[17 + i]>>, <<>>, <<>>)

\* The auths maps over StoreKeys with at most MaxKeys keys
StoreMaps ==
  { [k \in {StoreKeys[i] : i \in I} |->
       EntryJSON(StoreEntry(CHOOSE i \in I : StoreKeys[i] = k))] :
    I \in {J \in SUBSET (1..Len(StoreKeys)) : Cardinality(J) <= MaxKeys} }

\* Entries under the key "r.io" that exercise extractCredentials: the auth
\* field alone (base64 of "u:p", of "u:p:q", of ":", of "up"; not base64),
\* the explicit pair with an auth field, a username with an auth field, no
\* field at all, and a username that is no JSON string.
OddEntries ==
  { EntryJSON(DockerAuthConfig(<<>>, <<>>, <<"d","T","p","w">>, <<>>)),
    EntryJSON(DockerAuthConfig(<<>>, <<>>, <<"d","T","p","w","O","n","E","=">>, <<>>)),
    EntryJSON(DockerAuthConfig(<<>>, <<>>, <<"O","g","=","=">>, <<>>)),
    EntryJSON(DockerAuthConfig(<<>>, <<>>, <<"d","X","A","=">>, <<>>)),
    EntryJSON(DockerAuthConfig(<<>>, <<>>, <<"!","!","!","!">>, <<>>)),
    EntryJSON(DockerAuthConfig(<<"x">>, <<"y">>, <<"d","T","p","w">>, <<>>)),
    EntryJSON(DockerAuthConfig(<<"x">>, <<>>, <<"d","T","p","w">>, <<>>)),
    EntryJSON(DockerAuthConfig(<<>>, <<>>, <<>>, <<>>)),
    JSONObject([name \in {jsonUsername} |-> JSONOther]) }

\* {"auths": map}
Wrapped(map) == JSONObject([name \in {jsonAuths} |-> map])

DockerConfigDocs ==
  { Wrapped(JSONObject(m)) : m \in StoreMaps } \cup
  { JSONObject(m) : m \in StoreMaps } \cup
  { Wrapped(JSONObject([k \in {StoreKeys[1]} |-> e])) : e \in OddEntries } \cup
  { JSONInvalid, JSONNull, JSONOther, Wrapped(JSONOther) }

GoodMap == [k \in {StoreKeys[1]} |-> EntryJSON(StoreEntry(1))]
OtherMap == [k \in {StoreKeys[5]} |-> EntryJSON(StoreEntry(5))]

\* Secret data: no key, one of the two docker config keys, or both
SecretData ==
  { <<>> } \cup
  { [k \in {DockerConfigJsonKey} |-> d] : d \in DockerConfigDocs } \cup
  { [k \in {DockerConfigKey} |-> d] : d \in DockerConfigDocs } \cup
  { [k \in {DockerConfigJsonKey, DockerConfigKey} |->
       IF k = DockerConfigJsonKey THEN d ELSE JSONObject(GoodMap)] :
    d \in {JSONInvalid, Wrapped(JSONObject(OtherMap)), Wrapped(JSONObject(GoodMap))} }

FewData ==
  { <<>>,
    [k \in {DockerConfigJsonKey} |-> Wrapped(JSONObject(GoodMap))],
    [k \in {DockerConfigKey} |-> JSONObject(GoodMap)],
    [k \in {DockerConfigJsonKey} |-> JSONInvalid] }

Secret(Namespace, Name, Type, Data) ==
  [Namespace |-> Namespace, Name |-> Name, Type |-> Type, Data |-> Data]

Secrets ==
  { Secret(<<"n","s","1">>, <<"s","1">>, SecretTypeDockerConfigJson, d) : d \in SecretData } \cup
  { Secret(<<"n","s","1">>, <<"s","1">>, t, d) : t \in {SecretTypeDockercfg, SecretTypeOpaque},
                                    d \in FewData } \cup
  { Secret(<<"n","s","2">>, <<"s","1">>, SecretTypeDockerConfigJson,
           [k \in {DockerConfigJsonKey} |-> Wrapped(JSONObject(GoodMap))]) }

\* The API server as the client sees it: the secrets it stores, and the
\* error every call fails with, if any
Clients ==
  { [secrets |-> S, fail |-> <<>>] : S \in {{}} \cup {{s} : s \in Secrets} } \cup
  { [secrets |-> S, fail |-> Errorf(<<"c","o","n","n","e","c","t","i","o","n"," ","r","e","f","u","s","e","d">>)] :
    S \in { {}, {Secret(<<"n","s","1">>, <<"s","1">>, SecretTypeDockerConfigJson,
                        [k \in {DockerConfigJsonKey} |-> Wrapped(JSONObject(GoodMap))])} } }

(***************************************************************************)
(* State: the host under validation, the validator's client and recorder   *)
(* (nil, or the events recorded so far), the Get calls the client has      *)
(* served, what Validate returned, and where the call is.  A function of   *)
(* pkg/secretutils called on its own has its arguments in call and what it *)
(* returned in ret.                                                        *)
(***************************************************************************)
VARIABLES bmh, c, recorder, gets, res, err, pc, call, ret

vars == <<bmh, c, recorder, gets, res, err, pc, call, ret>>

Init ==
  /\ bmh \in BareMetalHosts
  /\ c \in Clients
  /\ recorder \in { <<>>, << <<>> >> }
  /\ gets = <<>>
  /\ res = <<>>
  /\ err = <<>>
  /\ pc = "call"
  /\ call = [fn |-> "Validate"]
  /\ ret = Return(<<>>, <<>>)

\* One call of validator.Validate
ValidateCall ==
  /\ pc = "call"
  /\ call.fn = "Validate"
  /\ LET r == Validate(c, recorder, bmh)
     IN  /\ res' = r.res
         /\ err' = r.err
         /\ recorder' = IF recorder = <<>> THEN <<>> ELSE << recorder[1] \o r.events >>
         /\ gets' = gets \o r.gets
  /\ pc' = "returned"
  /\ UNCHANGED <<bmh, c, call, ret>>

Next == ValidateCall

Spec == Init /\ [][Next]_vars

(***************************************************************************)
(* One call of findAuthConfig on its own.                                  *)
(***************************************************************************)

\* Registry hosts findAuthConfig is asked for: plain, with a port, and
\* Docker Hub under its names
QueryHosts ==
  { <<"r",".","i","o">>, <<"r",".","i","o",":","5","0","0","0">>, <<"d","o","c","k","e","r",".","i","o">>, <<"i","n","d","e","x",".","d","o","c","k","e","r",".","i","o">>, <<"d","o","c","k","e","r",".","i","o",":","4","4","3">> }

\* The ways a registry host h is written as a key of a docker config
KeyForms(h) ==
  { h, <<"h","t","t","p","s",":","/","/">> \o h, <<"h","t","t","p",":","/","/">> \o h, h \o <<"/","v","1","/">>, h \o <<"/","v","2","/">>,
    <<"h","t","t","p","s",":","/","/">> \o h \o <<"/","v","1","/">>, <<"h","t","t","p","s",":","/","/">> \o h \o <<"/","v","2","/">> }

\* The ways Docker Hub is written as a key of a docker config
DockerHubForms ==
  { <<"h","t","t","p","s",":","/","/","i","n","d","e","x",".","d","o","c","k","e","r",".","i","o","/","v","1","/">>, <<"i","n","d","e","x",".","d","o","c","k","e","r",".","i","o">>, <<"d","o","c","k","e","r",".","i","o">>,
    <<"h","t","t","p","s",":","/","/","d","o","c","k","e","r",".","i","o">>, <<"h","t","t","p","s",":","/","/","i","n","d","e","x",".","d","o","c","k","e","r",".","i","o">> }

\* An auths map with the keys K: each entry carries its key as username, so
\* that no two keys hold the same entry
AuthsOver(K) == [k \in K |-> DockerAuthConfig(k, <<"p">>, <<>>, <<>>)]

FindCalls ==
  { [fn |-> "findAuthConfig", auths |-> AuthsOver(K), registryHost |-> h] :
    <<h, K>> \in
      UNION { {h} \X {K \in SUBSET (KeyForms(h) \cup DockerHubForms \cup {<<"o","t","h","e","r",".","i","o">>}) :
                        Cardinality(K) <= MaxKeys} : h \in QueryHosts } }

InitFind ==
  /\ call \in FindCalls
  /\ ret = Return(<<>>, <<>>)
  /\ pc = "call"
  /\ bmh = [Namespace |-> <<"n","s","1">>, Spec |-> [Image |-> <<>>]]
  /\ c = [secrets |-> {}, fail |-> <<>>]
  /\ recorder = <<>>
  /\ gets = <<>>
  /\ res = <<>>
  /\ err = <<>>

FindAuthConfigCall ==
  /\ pc = "call"
  /\ call.fn = "findAuthConfig"
  /\ ret' = findAuthConfig(call.auths, call.registryHost)
  /\ pc' = "returned"
  /\ UNCHANGED <<bmh, c, recorder, gets, res, err, call>>

NextFind == FindAuthConfigCall

SpecFind == InitFind /\ [][NextFind]_vars

(***************************************************************************)
(* What the claims speak of, read off the state of a Validate call.        *)
(***************************************************************************)
Returned == pc = "returned"

Img == bmh.Spec.Image

URLSet == Img # <<>> /\ Img[1].URL # <<>>

SecretDeclared ==
  URLSet /\ Img[1].AuthSecretName # <<>> /\ Img[1].AuthSecretName[1] # <<>>

Stored ==
  {s \in c.secrets : s.Namespace = bmh.Namespace /\ s.Name = Img[1].AuthSecretName[1]}

\* The secret is declared and the client returns it
Fetched == SecretDeclared /\ c.fail = <<>> /\ Stored # {}

TheSecret == CHOOSE s \in Stored : TRUE

AcceptedType ==
  TheSecret.Type \in {<<"k","u","b","e","r","n","e","t","e","s",".","i","o","/","d","o","c","k","e","r","c","o","n","f","i","g","j","s","o","n">>, <<"k","u","b","e","r","n","e","t","e","s",".","i","o","/","d","o","c","k","e","r","c","f","g">>}

\* The reference is artifact-kind: "oci://" in any letter case
ArtifactKind ==
  /\ Len(Img[1].URL) >= 6
  /\ ToLower(SubSeq(Img[1].URL, 1, 6)) = <<"o","c","i",":","/","/">>

\* What the Credential Resolver returns for the fetched secret and the URL
Resolved == ExtractRegistryCredentials(<<TheSecret>>, Img[1].URL)

\* The host extracted from the URL
QueriedHost == extractRegistryHost(Img[1].URL)

\* The document the resolver consults: under the current key if the secret
\* holds it, else under the legacy key
HasDocument ==
  DockerConfigJsonKey \in DOMAIN TheSecret.Data \/ DockerConfigKey \in DOMAIN TheSecret.Data

Unmarshalled ==
  IF DockerConfigJsonKey \in DOMAIN TheSecret.Data
  THEN UnmarshalDockerConfigJSON(TheSecret.Data[DockerConfigJsonKey])
  ELSE UnmarshalDockerConfig(TheSecret.Data[DockerConfigKey])

\* The resolver fails in the Registry-Key Matcher: the host and the document
\* parse, and no key of the map matches the host
MatcherFailed ==
  /\ QueriedHost.err = <<>>
  /\ HasDocument
  /\ Unmarshalled.err = <<>>
  /\ findAuthConfig(Unmarshalled.val, QueriedHost.val).err # <<>>

\* The events the recorder holds
Events == IF recorder = <<>> THEN <<>> ELSE recorder[1]

(***************************************************************************)
(* Claims on Validate (specification Spec).                                *)
(***************************************************************************)

\* C1: Validate returns Valid=true with reason Valid exactly when the URL is
\* non-empty, a non-empty secret name is declared, the fetch succeeds, the
\* secret's type is one of the two accepted types, and the reference is not
\* artifact-kind or the resolver succeeds; a non-artifact reference with an
\* accepted-type secret is Valid with no credentials whatever the data.
C1_ValidExactlyWhen ==
  Returned =>
    /\ (res[1].Valid /\ res[1].Reason = ReasonValid)
         <=> (Fetched /\ AcceptedType /\ (~ArtifactKind \/ Resolved.err = <<>>))
    /\ (Fetched /\ AcceptedType /\ ~ArtifactKind)
         => (res[1].Valid /\ res[1].Reason = ReasonValid /\ res[1].Credentials = <<>>)

\* A non-artifact reference with a docker-config secret that holds no data at
\* all has been reported Valid
C1_Witness ==
  /\ Returned /\ Fetched /\ AcceptedType /\ ~ArtifactKind
  /\ TheSecret.Type = SecretTypeDockercfg
  /\ TheSecret.Data = <<>>
  /\ res[1].Valid

\* C2 (as claimed): for an artifact-kind reference whose resolver fails,
\* Validate returns Valid=false and a nil error, with reason
\* RegistryEntryMissing exactly when the failure is the matcher finding no
\* key for the host and ParseError for every other resolver failure.
C2_ReasonByFailure ==
  (Returned /\ Fetched /\ AcceptedType /\ ArtifactKind /\ Resolved.err # <<>>) =>
    /\ ~res[1].Valid
    /\ err = <<>>
    /\ res[1].Reason = (IF MatcherFailed THEN ReasonRegistryEntryMissing
                        ELSE ReasonParseError)

\* C3: Validate returns a non-nil error if and only if the secret fetch fails
\* for a reason other than absence; every call returns a result.
C3_ErrorOnlyOnFetchFailure ==
  Returned =>
    /\ res # <<>>
    /\ err # <<>> <=> (SecretDeclared /\ c.fail # <<>>)

\* The fetch has failed with an API error and Validate has returned it
C3_Witness ==
  Returned /\ SecretDeclared /\ c.fail # <<>> /\ err = c.fail

\* The consulted document does not parse as the shape of its data key
Unparseable == HasDocument /\ Unmarshalled.err # <<>>

\* C4 (as claimed): document bytes that cannot be parsed as the declared
\* shape end the validation in a hard failure, an error and no typed result.
C4_UnparseableIsHardFailure ==
  (Returned /\ Fetched /\ AcceptedType /\ ArtifactKind /\ QueriedHost.err = <<>>
   /\ Unparseable)
    => err # <<>>

\* C4 (amended): for such a document the resolver returns an error and no
\* credential, and Validate, for an artifact-kind reference whose host parses,
\* returns the typed result ParseError with Valid=false, no credentials and a
\* nil error.
C4_UnparseableIsParseError ==
  (Returned /\ Fetched /\ AcceptedType /\ ArtifactKind /\ QueriedHost.err = <<>>
   /\ Unparseable)
    => /\ Resolved.err # <<>>
       /\ Resolved.val = <<>>
       /\ err = <<>>
       /\ ~res[1].Valid
       /\ res[1].Reason = ReasonParseError
       /\ res[1].Credentials = <<>>

\* Bytes that are no JSON under the current key have been validated for an
\* artifact-kind reference
C4_Witness ==
  /\ Returned /\ Fetched /\ AcceptedType /\ ArtifactKind /\ QueriedHost.err = <<>>
  /\ DockerConfigJsonKey \in DOMAIN TheSecret.Data
  /\ TheSecret.Data[DockerConfigJsonKey] = JSONInvalid
  /\ res[1].Reason = ReasonParseError

\* C5: Credentials is non-empty if and only if Valid and OCIRelevant are
\* both true, and then it is the resolver's output for the fetched secret and
\* the URL: standard base64 of a text with a colon in it.
C5_CredentialsIffValidAndRelevant ==
  Returned =>
    /\ res[1].Credentials # <<>> <=> (res[1].Valid /\ res[1].OCIRelevant)
    /\ res[1].Credentials # <<>> =>
         /\ Fetched
         /\ Resolved.err = <<>>
         /\ res[1].Credentials = Resolved.val
         /\ DecodeString(res[1].Credentials).ok
         /\ IndexByte(DecodeString(res[1].Credentials).val, ":") # 0

\* A call has returned the credentials of an entry that had only the auth
\* field
C5_Witness ==
  /\ Returned /\ Fetched
  /\ res[1].Valid /\ res[1].OCIRelevant
  /\ res[1].Credentials = <<"d","T","p","w">>

\* An event reports the unsupported secret type
IsFormatEvent(e) == e.reason = "ImageAuthFormatUnsupported"

WrongTypeResult ==
  [Secret |-> <<>>, Valid |-> FALSE, Reason |-> "WrongType",
   Message |-> <<"s","e","c","r","e","t"," ">> \o Quote(Img[1].AuthSecretName[1])
               \o <<" ","h","a","s"," ","u","n","s","u","p","p","o","r","t","e","d"," ","t","y","p","e"," ">> \o Quote(TheSecret.Type)
               \o <<";"," ","e","x","p","e","c","t","e","d"," ","\"","k","u","b","e","r","n","e","t","e","s",".","i","o","/","d","o","c","k","e","r","c","o","n","f","i","g","j","s","o","n","\""," ","o","r"," ","\"","k","u","b","e","r","n","e","t","e","s",".","i","o","/","d","o","c","k","e","r","c","f","g","\"">>,
   OCIRelevant |-> ArtifactKind, Credentials |-> <<>>]

OneFormatEvent ==
  LET evs == SelectSeq(Events, IsFormatEvent)
  IN  /\ Len(evs) = 1
      /\ evs[1].eventtype = "Warning"
      /\ Contains(evs[1].message, Img[1].AuthSecretName[1])
      /\ Contains(evs[1].message, TheSecret.Type)

\* C10 (as claimed): a fetched secret of another type gives WrongType with
\* Valid=false, a message naming both expected types and built without the
\* secret's data, and exactly one ImageAuthFormatUnsupported warning naming
\* the secret and its type.
C10_WrongTypeOneWarning ==
  (Returned /\ Fetched /\ ~AcceptedType) =>
    /\ err = <<>>
    /\ res[1] = WrongTypeResult
    /\ OneFormatEvent

\* C10 (amended): the same, the warning being emitted when the validator has
\* a recorder, and none when its recorder is nil.
C10_WrongTypeOneWarningIfRecorder ==
  (Returned /\ Fetched /\ ~AcceptedType) =>
    /\ err = <<>>
    /\ res[1] = WrongTypeResult
    /\ recorder # <<>> => OneFormatEvent
    /\ recorder = <<>> => Events = <<>>

\* An Opaque secret whose docker config is no JSON has been reported
\* WrongType, with the warning recorded
C10_Witness ==
  /\ Returned /\ Fetched /\ ~AcceptedType
  /\ recorder # <<>>
  /\ DockerConfigJsonKey \in DOMAIN TheSecret.Data
  /\ TheSecret.Data[DockerConfigJsonKey] = JSONInvalid
  /\ res[1].Reason = ReasonWrongType
  /\ OneFormatEvent

(***************************************************************************)
(* Claims on findAuthConfig (specification SpecFind).                      *)
(***************************************************************************)

\* The query hosts that are Docker Hub
DockerHubHosts == { <<"d","o","c","k","e","r",".","i","o">>, <<"i","n","d","e","x",".","d","o","c","k","e","r",".","i","o">>, <<"d","o","c","k","e","r",".","i","o",":","4","4","3">> }

\* The order of keys the claim gives for host h
ClaimedOrder(h) ==
  << h, <<"h","t","t","p","s",":","/","/">> \o h, <<"h","t","t","p",":","/","/">> \o h, h \o <<"/","v","1","/">>, h \o <<"/","v","2","/">>,
     <<"h","t","t","p","s",":","/","/">> \o h \o <<"/","v","1","/">>, <<"h","t","t","p","s",":","/","/">> \o h \o <<"/","v","2","/">> >>
  \o (IF h \in DockerHubHosts
      THEN << <<"h","t","t","p","s",":","/","/","i","n","d","e","x",".","d","o","c","k","e","r",".","i","o","/","v","1","/">>, <<"i","n","d","e","x",".","d","o","c","k","e","r",".","i","o">>, <<"d","o","c","k","e","r",".","i","o">>,
              <<"h","t","t","p","s",":","/","/","d","o","c","k","e","r",".","i","o">>, <<"h","t","t","p","s",":","/","/","i","n","d","e","x",".","d","o","c","k","e","r",".","i","o">> >>
      ELSE <<>>)

\* The positions of ClaimedOrder whose key the map of the call holds
PresentAt ==
  {i \in 1..Len(ClaimedOrder(call.registryHost)) :
     ClaimedOrder(call.registryHost)[i] \in DOMAIN call.auths}

\* C6: findAuthConfig returns the entry under the first key, in the claimed
\* order, that the map holds, even when it holds later keys too.
C6_FirstKeyInOrderWins ==
  (Returned /\ PresentAt # {}) =>
    LET first == CHOOSE i \in PresentAt : \A j \in PresentAt : i <= j
    IN  /\ ret.err = <<>>
        /\ ret.val = <<call.auths[ClaimedOrder(call.registryHost)[first]]>>

\* A map holding both "https://r.io" and "http://r.io" has given the entry
\* of "https://r.io"
C6_Witness ==
  /\ Returned
  /\ call.registryHost = <<"r",".","i","o">>
  /\ DOMAIN call.auths = { <<"h","t","t","p","s",":","/","/","r",".","i","o">>, <<"h","t","t","p",":","/","/","r",".","i","o">> }
  /\ ret.val = <<call.auths[<<"h","t","t","p","s",":","/","/","r",".","i","o">>]>>

\* C7: a store whose sole key is one of the Docker Hub alias forms resolves
\* for the query hosts "docker.io" and "index.docker.io".
C7_DockerHubAliases ==
  \A k \in { <<"h","t","t","p","s",":","/","/","i","n","d","e","x",".","d","o","c","k","e","r",".","i","o","/","v","1","/">>, <<"i","n","d","e","x",".","d","o","c","k","e","r",".","i","o">>, <<"d","o","c","k","e","r",".","i","o">>,
             <<"h","t","t","p","s",":","/","/","d","o","c","k","e","r",".","i","o">>, <<"h","t","t","p","s",":","/","/","i","n","d","e","x",".","d","o","c","k","e","r",".","i","o">> } :
    (/\ Returned
     /\ call.registryHost \in { <<"d","o","c","k","e","r",".","i","o">>, <<"i","n","d","e","x",".","d","o","c","k","e","r",".","i","o">> }
     /\ DOMAIN call.auths = {k})
      => ret = Return(<<call.auths[k]>>, <<>>)

\* The query "docker.io" has resolved from a store keyed
\* "https://index.docker.io" alone
C7_Witness ==
  /\ Returned
  /\ call.registryHost = <<"d","o","c","k","e","r",".","i","o">>
  /\ DOMAIN call.auths = { <<"h","t","t","p","s",":","/","/","i","n","d","e","x",".","d","o","c","k","e","r",".","i","o">> }
  /\ ret.err = <<>>
  /\ ret.val[1].Username = <<"h","t","t","p","s",":","/","/","i","n","d","e","x",".","d","o","c","k","e","r",".","i","o">>

\* C8: a map whose sole key is one of the key forms of the query host (or,
\* for a Docker Hub host, one of the alias forms) resolves for that host and
\* returns that key's entry.
C8_SoleRuleKeyResolves ==
  \A k \in KeyForms(call.registryHost)
           \cup (IF call.registryHost \in DockerHubHosts THEN DockerHubForms ELSE {}) :
    (Returned /\ DOMAIN call.auths = {k}) => ret = Return(<<call.auths[k]>>, <<>>)

\* The query "r.io:5000" has resolved from a store keyed "r.io:5000/v2/" alone
C8_Witness ==
  /\ Returned
  /\ call.registryHost = <<"r",".","i","o",":","5","0","0","0">>
  /\ DOMAIN call.auths = { <<"r",".","i","o",":","5","0","0","0","/","v","2","/">> }
  /\ ret.err = <<>>
  /\ ret.val[1].Username = <<"r",".","i","o",":","5","0","0","0","/","v","2","/">>

\* C9 (as claimed), on the map and host the resolver hands the matcher during
\* a Validate call: findAuthConfig fails exactly when the map holds none of
\* the rule keys of the host; its error text holds "not found in auth config"
\* and the host; and the message of the RegistryEntryMissing result holds the
\* literal host.
C9_MissingEntryNamesHost ==
  (/\ Returned /\ Fetched /\ AcceptedType /\ ArtifactKind
   /\ QueriedHost.err = <<>> /\ HasDocument /\ Unmarshalled.err = <<>>) =>
    LET h == QueriedHost.val
        found == findAuthConfig(Unmarshalled.val, h)
        ruleKeys == KeyForms(h) \cup (IF h \in DockerHubHosts THEN DockerHubForms ELSE {})
    IN  /\ found.err # <<>> <=> ruleKeys \cap DOMAIN Unmarshalled.val = {}
        /\ found.err # <<>> =>
             /\ Contains(found.err[1], <<"n","o","t"," ","f","o","u","n","d"," ","i","n"," ","a","u","t","h"," ","c","o","n","f","i","g">>)
             /\ Contains(found.err[1], h)
             /\ res[1].Reason = ReasonRegistryEntryMissing
             /\ Contains(res[1].Message, h)
(***************************************************************************)
(* More claims on Validate (specification Spec).                           *)
(***************************************************************************)

\* The one Get call of a validation: the declared name in the host's
\* namespace
GotDeclaredSecret ==
  /\ Len(gets) = 1
  /\ gets[1].Namespace = bmh.Namespace
  /\ gets[1].Name = Img[1].AuthSecretName[1]

\* C11: when a non-empty secret name is declared and the store has no secret
\* of that name in the host's namespace, Validate asks the store for it and
\* returns SecretNotFound with Valid=false, no credentials and a nil error.
C11_AbsentSecretNotFound ==
  (Returned /\ SecretDeclared /\ c.fail = <<>> /\ Stored = {}) =>
    /\ GotDeclaredSecret
    /\ err = <<>>
    /\ res[1].Reason = ReasonSecretNotFound
    /\ ~res[1].Valid
    /\ res[1].Credentials = <<>>
    /\ res[1].Secret = <<>>

\* A secret of the declared name exists in another namespace only, and the
\* call has returned SecretNotFound
C11_Witness ==
  /\ Returned /\ SecretDeclared /\ c.fail = <<>> /\ Stored = {}
  /\ \E s \in c.secrets : s.Name = Img[1].AuthSecretName[1]
  /\ res[1].Reason = ReasonSecretNotFound

\* C12: when the image URL is non-empty and the secret name is nil or empty,
\* Validate returns NotRequired with Valid=false and a nil error, for
\* artifact-kind and other references alike, and makes no Get call.
C12_NoSecretNameNotRequired ==
  (Returned /\ URLSet /\ ~SecretDeclared) =>
    /\ res[1].Reason = ReasonNotRequired
    /\ ~res[1].Valid
    /\ res[1].Secret = <<>>
    /\ res[1].Credentials = <<>>
    /\ err = <<>>
    /\ gets = <<>>

\* An artifact-kind reference with the empty secret name has been validated
\* by a validator whose client fails every call, and NotRequired came back
C12_Witness ==
  /\ Returned /\ URLSet /\ ArtifactKind
  /\ Img[1].AuthSecretName = << <<>> >>
  /\ c.fail # <<>>
  /\ res[1].Reason = ReasonNotRequired
  /\ gets = <<>>

\* C13: when the host has no image or an empty image URL, Validate returns
\* Valid=false with the message "image URL not set" and the reason Unknown,
\* whether or not a secret name is declared and whether or not that secret
\* exists: it fetches nothing, emits nothing and returns no error.
C13_NoURLFirst ==
  (Returned /\ ~URLSet) =>
    /\ ~res[1].Valid
    /\ res[1].Reason = "Unknown"
    /\ res[1].Message = <<"i","m","a","g","e"," ","U","R","L"," ","n","o","t"," ","s","e","t">>
    /\ res[1].Secret = <<>>
    /\ res[1].Credentials = <<>>
    /\ err = <<>>
    /\ gets = <<>>
    /\ Events = <<>>

\* An image with an empty URL and the name of a stored docker-config secret
\* has been validated
C13_Witness ==
  /\ Returned /\ Img # <<>> /\ Img[1].URL = <<>>
  /\ Img[1].AuthSecretName = << <<"s","1">> >>
  /\ \E s \in c.secrets : s.Namespace = bmh.Namespace /\ s.Name = <<"s","1">>
  /\ res[1].Message = <<"i","m","a","g","e"," ","U","R","L"," ","n","o","t"," ","s","e","t">>

\* The reasons of the branches a call with a non-empty URL ends in
BranchReasons ==
  {"NotRequired", "SecretNotFound", "WrongType", "ParseError",
   "RegistryEntryMissing", "Valid", "Unknown"}

\* C14: for every call with a non-empty image URL the result's OCIRelevant
\* flag equals the case-insensitive check that the URL starts with "oci://",
\* in whichever branch the call ends, the hard-failure return included.
C14_OCIRelevantAlwaysReported ==
  (Returned /\ URLSet) =>
    /\ res[1].OCIRelevant = ArtifactKind
    /\ res[1].Reason \in BranchReasons
    /\ res[1].Reason = "Unknown" <=> err # <<>>

\* A reference with the scheme in capitals has ended in the hard-failure
\* return, with the flag set
C14_Witness ==
  /\ Returned /\ URLSet
  /\ SubSeq(Img[1].URL, 1, 3) = <<"O","C","I">>
  /\ err # <<>>
  /\ res[1].OCIRelevant

\* An event tells that the secret is of no use for the image
IsIrrelevantEvent(e) == e.reason = "ImageAuthIrrelevant"

\* The first event recorded is the one ImageAuthIrrelevant warning, naming
\* the secret and the URL
IrrelevantWarningFirst ==
  /\ Len(SelectSeq(Events, IsIrrelevantEvent)) = 1
  /\ IsIrrelevantEvent(Events[1])
  /\ Events[1].eventtype = "Warning"
  /\ Contains(Events[1].message, Img[1].AuthSecretName[1])
  /\ Contains(Events[1].message, Img[1].URL)

\* The call ends as the fetch and the type check decide, the warning having
\* changed neither reason nor validity: the hard failure, SecretNotFound,
\* WrongType, or Valid without credentials
EndsByFetchAndType ==
  /\ c.fail # <<>> => (err = c.fail /\ ~res[1].Valid /\ res[1].Reason = "Unknown")
  /\ c.fail = <<>> => err = <<>>
  /\ (c.fail = <<>> /\ Stored = {}) => (~res[1].Valid /\ res[1].Reason = "SecretNotFound")
  /\ (Fetched /\ ~AcceptedType) => (~res[1].Valid /\ res[1].Reason = "WrongType")
  /\ (Fetched /\ AcceptedType) =>
       (res[1].Valid /\ res[1].Reason = "Valid" /\ res[1].Credentials = <<>>)

\* C15 (as claimed): when a secret name is declared and the reference is not
\* artifact-kind, Validate emits the ImageAuthIrrelevant warning, then
\* fetches the secret and checks its type, and ends as these decide.
C15_WarnThenFetch ==
  (Returned /\ SecretDeclared /\ ~ArtifactKind) =>
    /\ IrrelevantWarningFirst
    /\ GotDeclaredSecret
    /\ gets[1].eventsBefore = 1
    /\ EndsByFetchAndType

\* C15 (amended): the same, the warning being emitted when the validator has
\* a recorder; a validator whose recorder is nil emits nothing and fetches
\* all the same.
C15_WarnIfRecorderThenFetch ==
  (Returned /\ SecretDeclared /\ ~ArtifactKind) =>
    /\ recorder # <<>> => (IrrelevantWarningFirst /\ gets[1].eventsBefore = 1)
    /\ recorder = <<>> => Events = <<>>
    /\ GotDeclaredSecret
    /\ EndsByFetchAndType

\* A plain http reference with a secret of an unsupported type has been
\* validated: the ImageAuthIrrelevant warning, the fetch, then WrongType and
\* its warning
C15_Witness ==
  /\ Returned /\ SecretDeclared /\ ~ArtifactKind
  /\ recorder # <<>>
  /\ Fetched /\ ~AcceptedType
  /\ Len(Events) = 2
  /\ IsIrrelevantEvent(Events[1])
  /\ IsFormatEvent(Events[2])
  /\ gets[1].eventsBefore = 1
  /\ res[1].Reason = "WrongType"

(***************************************************************************)
(* One call of a function of pkg/secretutils on its own: extractCredentials*)
(* on an auth entry, extractRegistryHost on an image URL, or               *)
(* ExtractRegistryCredentials on a secret and an image URL.                *)
(***************************************************************************)

\* Auth fields as the tests have them, each with the text it encodes when it
\* is standard base64 (plain is <<>> when it is not): empty, "u:p", "u:p:q",
\* "user:pa:ss", ":", "up", "u:", ":p", unpadded base64 of "up", and text
\* outside the base64 alphabet
AuthFields ==
  { [Auth |-> <<>>, plain |-> <<>>],
    [Auth |-> <<"d","T","p","w">>, plain |-> << <<"u",":","p">> >>],
    [Auth |-> <<"d","T","p","w","O","n","E","=">>, plain |-> << <<"u",":","p",":","q">> >>],
    [Auth |-> <<"d","X","N","l","c","j","p","w","Y","T","p","z","c","w","=","=">>, plain |-> << <<"u","s","e","r",":","p","a",":","s","s">> >>],
    [Auth |-> <<"O","g","=","=">>, plain |-> << <<":">> >>],
    [Auth |-> <<"d","X","A","=">>, plain |-> << <<"u","p">> >>],
    [Auth |-> <<"d","T","o","=">>, plain |-> << <<"u",":">> >>],
    [Auth |-> <<"O","n","A","=">>, plain |-> << <<":","p">> >>],
    [Auth |-> <<"d","X","A">>, plain |-> <<>>],
    [Auth |-> <<"!","!","!","!">>, plain |-> <<>>] }

\* Explicit usernames and passwords: empty, plain, and with a colon
Usernames == { <<>>, <<"x">>, <<"a","l",":","i","c","e">> }
Passwords == { <<>>, <<"y">>, <<"s","e",":","c","r",":","e","t">> }

ExtractCredentialsCalls ==
  { [fn |-> "extractCredentials",
     authConfig |-> DockerAuthConfig(u, p, a.Auth, <<>>),
     plain |-> a.plain] :
    u \in Usernames, p \in Passwords, a \in AuthFields }

\* The parts an image URL is put together from: what stands for the scheme,
\* the hostname (none, names, an address, one with a space, one with a
\* double quote), the port (none, numbers, a bare colon, letters) and the
\* rest (nothing, paths with a tag or a digest, a query and a fragment, a
\* path with a percent escape, well-formed and not, and a fragment with a
\* lone "%")
URLSchemes == { <<"o","c","i",":","/","/">>, <<"O","C","I",":","/","/">>, <<"O","c","i",":","/","/">>, <<"h","t","t","p",":","/","/">>, <<"o","c","i",":">>, <<>> }
URLHostnames == { <<>>, <<"r",".","i","o">>, <<"R",".","I","O">>, <<"1","0",".","0",".","0",".","1">>, <<"l","o","c","a","l","h","o","s","t">>, <<"a"," ","b">>, <<"a","\"","b">> }
URLPorts == { <<>>, <<":","5","0","0","0">>, <<":","4","4","3">>, <<":">>, <<":","x">> }
URLRests == { <<>>, <<"/">>, <<"/","r","e","p","o","/","i","m","a","g","e",":","t","a","g">>, <<"/","a","@","s","h","a","2","5","6",":","1">>, <<"?","x","=","1","#","f">>,
                <<"/","a","%","2","0","b">>, <<"/","a","%","z","z">>, <<"/","a","#","%">> }

ExtractRegistryHostCalls ==
  { [fn |-> "extractRegistryHost", imageURL |-> s \o h \o p \o r,
     scheme |-> s, hostname |-> h, port |-> p, rest |-> r] :
    s \in URLSchemes, h \in URLHostnames, p \in URLPorts, r \in URLRests }

\* What a data key of a secret holds, by kind: the document with the entry
\* for r.io under its own shape, the same in the other key's shape, one
\* without an entry for r.io, bytes that are no JSON
DocumentKinds == {"absent", "entry", "otherShape", "lacksHost", "invalid"}

\* The document of kind k for a data key; wrapped tells whether the key's own
\* shape is the one with "auths"
Document(k, wrapped, e) ==
  LET forHost == JSONObject([key \in {<<"r",".","i","o">>} |-> EntryJSON(e)])
      forOther == JSONObject([key \in {<<"o","t","h","e","r",".","i","o">>} |-> EntryJSON(e)])
  IN  IF k = "entry" THEN (IF wrapped THEN Wrapped(forHost) ELSE forHost)
      ELSE IF k = "otherShape" THEN (IF wrapped THEN forHost ELSE Wrapped(forHost))
      ELSE IF k = "lacksHost" THEN (IF wrapped THEN Wrapped(forOther) ELSE forOther)
      ELSE JSONInvalid

\* The data of a secret whose current key holds a document of kind cur with
\* entry e and whose legacy key one of kind leg with entry f
DataOf(cur, e, leg, f) ==
  [k \in ({DockerConfigJsonKey} \cap (IF cur # "absent" THEN {DockerConfigJsonKey} ELSE {}))
         \cup ({DockerConfigKey} \cap (IF leg # "absent" THEN {DockerConfigKey} ELSE {}))
   |-> IF k = DockerConfigJsonKey THEN Document(cur, TRUE, e)
       ELSE Document(leg, FALSE, f)]

\* The entries of the current document: explicit pair, auth field alone, both,
\* a username with an auth field, an auth field that is no base64 or has no
\* colon, and no field
CurrentEntries ==
  { x \in ExtractCredentialsCalls :
      /\ x.authConfig.Username \in {<<>>, <<"a","l",":","i","c","e">>}
      /\ x.authConfig.Password \in {<<>>, <<"s","e",":","c","r",":","e","t">>}
      /\ x.authConfig.Auth \in {<<>>, <<"d","T","p","w">>, <<"d","X","N","l","c","j","p","w","Y","T","p","z","c","w","=","=">>, <<"d","X","A","=">>, <<"!","!","!","!">>} }

\* The entry of the legacy document
LegacyEntry == DockerAuthConfig(<<"l","u">>, <<"l","p">>, <<>>, <<>>)

\* The reference the documents above hold an entry for
RioReference == <<"o","c","i",":","/","/","r",".","i","o","/","r","e","p","o","/","i","m","a","g","e",":","t","a","g">>

\* References the resolver finds no entry for in those documents: the scheme
\* in capitals, another scheme, nothing after the scheme, a port of letters,
\* and the registry with a port or in capitals
OtherReferences ==
  { <<"O","C","I",":","/","/","r",".","i","o","/","r","e","p","o","/","i","m","a","g","e",":","t","a","g">>, <<"h","t","t","p",":","/","/","r",".","i","o","/","i","m","a","g","e",".","q","c","o","w","2">>, <<"o","c","i",":","/","/">>,
    <<"o","c","i",":","/","/","r",".","i","o",":","x","/","r","e","p","o","/","i","m","a","g","e",":","t","a","g">>, <<"o","c","i",":","/","/","r",".","i","o",":","5","0","0","0","/","r","e","p","o","/","i","m","a","g","e",":","t","a","g">>,
    <<"o","c","i",":","/","/","R",".","I","O","/","r","e","p","o","/","i","m","a","g","e",":","t","a","g">> }

ExtractRegistryCredentialsCalls ==
  { [fn |-> "ExtractRegistryCredentials",
     secret |-> <<Secret(<<"n","s","1">>, <<"s","1">>, t, DataOf(cur, e.authConfig, leg, LegacyEntry))>>,
     imageURL |-> RioReference,
     current |-> cur, legacy |-> leg,
     authConfig |-> e.authConfig, plain |-> e.plain] :
    t \in {SecretTypeDockerConfigJson, SecretTypeDockercfg, SecretTypeOpaque},
    cur \in DocumentKinds, leg \in {"absent", "entry", "invalid"},
    e \in CurrentEntries } \cup
  { [fn |-> "ExtractRegistryCredentials", secret |-> <<>>,
     imageURL |-> RioReference,
     current |-> "absent", legacy |-> "absent",
     authConfig |-> LegacyEntry, plain |-> <<>>] } \cup
  { [fn |-> "ExtractRegistryCredentials",
     secret |-> <<Secret(<<"n","s","1">>, <<"s","1">>, SecretTypeDockerConfigJson,
                         DataOf("entry", e.authConfig, "absent", LegacyEntry))>>,
     imageURL |-> u,
     current |-> "entry", legacy |-> "absent",
     authConfig |-> e.authConfig, plain |-> e.plain] :
    u \in OtherReferences, e \in CurrentEntries }

InitSecretutils ==
  /\ call \in ExtractCredentialsCalls \cup ExtractRegistryHostCalls
               \cup ExtractRegistryCredentialsCalls
  /\ ret = Return(<<>>, <<>>)
  /\ pc = "call"
  /\ bmh = [Namespace |-> <<"n","s","1">>, Spec |-> [Image |-> <<>>]]
  /\ c = [secrets |-> {}, fail |-> <<>>]
  /\ recorder = <<>>
  /\ gets = <<>>
  /\ res = <<>>
  /\ err = <<>>

ExtractCredentialsCall ==
  /\ pc = "call"
  /\ call.fn = "extractCredentials"
  /\ ret' = extractCredentials(call.authConfig)
  /\ pc' = "returned"
  /\ UNCHANGED <<bmh, c, recorder, gets, res, err, call>>

ExtractRegistryHostCall ==
  /\ pc = "call"
  /\ call.fn = "extractRegistryHost"
  /\ ret' = extractRegistryHost(call.imageURL)
  /\ pc' = "returned"
  /\ UNCHANGED <<bmh, c, recorder, gets, res, err, call>>

ExtractRegistryCredentialsCall ==
  /\ pc = "call"
  /\ call.fn = "ExtractRegistryCredentials"
  /\ ret' = ExtractRegistryCredentials(call.secret, call.imageURL)
  /\ pc' = "returned"
  /\ UNCHANGED <<bmh, c, recorder, gets, res, err, call>>

NextSecretutils ==
  \/ ExtractCredentialsCall
  \/ ExtractRegistryHostCall
  \/ ExtractRegistryCredentialsCall

SpecSecretutils == InitSecretutils /\ [][NextSecretutils]_vars

(***************************************************************************)
(* Claims on extractCredentials, ExtractRegistryCredentials and            *)
(* extractRegistryHost (specification SpecSecretutils).                    *)
(***************************************************************************)

\* extractCredentials has returned
CredentialsReturned == pc = "returned" /\ call.fn = "extractCredentials"

\* The entry of the call carries both explicit fields
ExplicitPair == call.authConfig.Username # <<>> /\ call.authConfig.Password # <<>>

\* What the auth field of the call yields on its own, whatever the explicit
\* fields: a failure when it is not base64 of a text with a colon, else the
\* text before its first colon and the text after it
FromAuthField(r) ==
  IF call.plain = <<>> \/ \A i \in 1..Len(call.plain[1]) : call.plain[1][i] # ":"
  THEN r.err # <<>> /\ r.username = <<>> /\ r.password = <<>>
  ELSE \E i \in 1..Len(call.plain[1]) :
         /\ call.plain[1][i] = ":"
         /\ \A j \in 1..(i - 1) : call.plain[1][j] # ":"
         /\ r.err = <<>>
         /\ r.username = SubSeq(call.plain[1], 1, i - 1)
         /\ r.password = SubSeq(call.plain[1], i + 1, Len(call.plain[1]))

\* C16: extractCredentials returns the explicit username and password
\* verbatim when both are non-empty, even when the auth field is set; when
\* either is empty it answers from the auth field alone, ignoring the
\* explicit field that is set, and fails when the auth field is empty too.
C16_ExplicitPairFirst ==
  CredentialsReturned =>
    /\ ExplicitPair =>
         ret = [username |-> call.authConfig.Username,
                password |-> call.authConfig.Password, err |-> <<>>]
    /\ (~ExplicitPair /\ call.authConfig.Auth # <<>>) => FromAuthField(ret)
    /\ (~ExplicitPair /\ call.authConfig.Auth = <<>>) =>
         (ret.err # <<>> /\ ret.username = <<>> /\ ret.password = <<>>)

\* An entry with both explicit fields and an auth field that encodes another
\* pair has given the explicit pair
C16_Witness ==
  /\ CredentialsReturned
  /\ call.authConfig = DockerAuthConfig(<<"x">>, <<"y">>, <<"d","T","p","w">>, <<>>)
  /\ ret.username = <<"x">> /\ ret.password = <<"y">> /\ ret.err = <<>>

\* The text has a colon
HasColon(text) == \E i \in 1..Len(text) : text[i] = ":"

\* C17: when the auth field is used, the decoded text is split at its first
\* colon only: the username is the part before it and has no colon, the
\* password is all that follows, colons included; the call fails when the
\* field is not valid base64 or the decoded text has no colon.
C17_SplitAtFirstColon ==
  (CredentialsReturned /\ ~ExplicitPair /\ call.authConfig.Auth # <<>>) =>
    /\ call.plain = <<>> =>
         (ret.err # <<>> /\ Contains(ret.err[1], <<"f","a","i","l","e","d"," ","t","o"," ","d","e","c","o","d","e"," ","a","u","t","h"," ","f","i","e","l","d">>))
    /\ (call.plain # <<>> /\ ~HasColon(call.plain[1])) =>
         (ret.err # <<>> /\ Contains(ret.err[1], <<"i","n","v","a","l","i","d"," ","a","u","t","h"," ","f","o","r","m","a","t">>))
    /\ (call.plain # <<>> /\ HasColon(call.plain[1])) =>
         /\ ret.err = <<>>
         /\ ~HasColon(ret.username)
         /\ ret.username \o <<":">> \o ret.password = call.plain[1]

\* The auth field base64("user:pa:ss") has given the password "pa:ss", next
\* to an explicit username that was ignored
C17_Witness ==
  /\ CredentialsReturned
  /\ call.authConfig = DockerAuthConfig(<<"x">>, <<>>, <<"d","X","N","l","c","j","p","w","Y","T","p","z","c","w","=","=">>, <<>>)
  /\ ret.username = <<"u","s","e","r">> /\ ret.password = <<"p","a",":","s","s">> /\ ret.err = <<>>

\* ExtractRegistryCredentials has returned
ResolverReturned == pc = "returned" /\ call.fn = "ExtractRegistryCredentials"

\* The document the secret of the call holds under its current key, or under
\* its legacy key when it has no current key, has an entry for the host
MatchedCurrent == call.secret # <<>> /\ call.current = "entry"
MatchedLegacy == call.secret # <<>> /\ call.current = "absent" /\ call.legacy = "entry"

\* "username:password" of the matched entry: the explicit pair when the entry
\* has both fields, else the text its auth field encodes
MatchedPairText ==
  IF MatchedLegacy THEN <<"l","u",":","l","p">>
  ELSE IF ExplicitPair
  THEN call.authConfig.Username \o <<":">> \o call.authConfig.Password
  ELSE call.plain[1]

\* C18: whenever ExtractRegistryCredentials succeeds, an entry was matched
\* and base64-decoding the output gives exactly username + ":" + password of
\* that entry: the explicit pair, or for an entry with only the auth field
\* the text that field encodes.
C18_OutputDecodesToPair ==
  (ResolverReturned /\ ret.err = <<>>) =>
    /\ MatchedCurrent \/ MatchedLegacy
    /\ DecodeString(ret.val) = [ok |-> TRUE, val |-> MatchedPairText]
    /\ MatchedLegacy => ret.val = <<"b","H","U","6","b","H","A","=">>
    /\ (MatchedCurrent /\ ~ExplicitPair) => HasColon(call.plain[1])

\* An entry holding only the auth field base64("user:pa:ss") has been
\* resolved, and the output is that same encoding
C18_Witness ==
  /\ ResolverReturned /\ ret.err = <<>> /\ MatchedCurrent
  /\ call.authConfig = DockerAuthConfig(<<>>, <<>>, <<"d","X","N","l","c","j","p","w","Y","T","p","z","c","w","=","=">>, <<>>)
  /\ ret.val = <<"d","X","N","l","c","j","p","w","Y","T","p","z","c","w","=","=">>

\* The call failed with an error whose text holds the phrase
FailedWith(phrase) == ret.err # <<>> /\ ret.val = <<>> /\ Contains(ret.err[1], phrase)

\* The entry of the call yields a pair: explicit, or encoded in its auth
\* field
EntryYieldsPair ==
  ExplicitPair \/ (call.plain # <<>> /\ HasColon(call.plain[1]))

\* C19: ExtractRegistryCredentials chooses the document by the data key the
\* secret holds, whatever the secret's declared type: with the current key
\* present only that document decides, also when the legacy key is present
\* and the current document does not parse or lacks the host; the legacy
\* document decides only when the current key is absent; with neither key
\* the call fails.  (For the reference whose registry the documents name.)
C19_DataKeyDecidesDocument ==
  (ResolverReturned /\ call.secret # <<>> /\ call.imageURL = RioReference) =>
    /\ call.current = "entry" =>
         /\ ret.err = <<>> <=> EntryYieldsPair
         /\ ret.err = <<>> => DecodeString(ret.val).val = MatchedPairText
         /\ ret.err # <<>> => FailedWith(<<"f","a","i","l","e","d"," ","t","o"," ","e","x","t","r","a","c","t"," ","c","r","e","d","e","n","t","i","a","l","s">>)
    /\ call.current = "invalid" => FailedWith(<<"f","a","i","l","e","d"," ","t","o"," ","p","a","r","s","e"," ","d","o","c","k","e","r","c","o","n","f","i","g","j","s","o","n">>)
    /\ call.current \in {"lacksHost", "otherShape"} =>
         /\ FailedWith(<<"f","a","i","l","e","d"," ","t","o"," ","p","a","r","s","e"," ","d","o","c","k","e","r","c","o","n","f","i","g","j","s","o","n">>)
         /\ FailedWith(<<"r","e","g","i","s","t","r","y"," ","r",".","i","o"," ","n","o","t"," ","f","o","u","n","d"," ","i","n"," ","a","u","t","h"," ","c","o","n","f","i","g">>)
    /\ (call.current = "absent" /\ call.legacy = "entry") =>
         ret = Return(<<"b","H","U","6","b","H","A","=">>, <<>>)
    /\ (call.current = "absent" /\ call.legacy = "invalid") =>
         FailedWith(<<"f","a","i","l","e","d"," ","t","o"," ","p","a","r","s","e"," ","d","o","c","k","e","r","c","f","g">>)
    /\ (call.current = "absent" /\ call.legacy = "absent") =>
         FailedWith(<<"s","e","c","r","e","t"," ","d","o","e","s"," ","n","o","t"," ","c","o","n","t","a","i","n"," ",".","d","o","c","k","e","r","c","o","n","f","i","g","j","s","o","n"," ","o","r"," ",".","d","o","c","k","e","r","c","f","g"," ","k","e","y">>)

\* A secret of the legacy type whose current key holds a document without the
\* host, and whose legacy key holds one with it, has failed to resolve
C19_Witness ==
  /\ ResolverReturned /\ call.secret # <<>>
  /\ call.secret[1].Type = SecretTypeDockercfg
  /\ call.current = "lacksHost" /\ call.legacy = "entry"
  /\ FailedWith(<<"n","o","t"," ","f","o","u","n","d"," ","i","n"," ","a","u","t","h"," ","c","o","n","f","i","g">>)

\* extractRegistryHost has returned
HostReturned == pc = "returned" /\ call.fn = "extractRegistryHost"

\* The reference of the call starts with the exact prefix "oci://"
ExactScheme == call.scheme = <<"o","c","i",":","/","/">>

\* What follows the prefix is a hostname with, at most, a port of digits:
\* the hostname is not empty and has no space, the port is not letters
ParseableHost ==
  /\ call.hostname # <<>>
  /\ \A i \in 1..Len(call.hostname) : call.hostname[i] # " "
  /\ \A i \in 2..Len(call.port) : call.port[i] \in Digits

\* The reference carries a port: digits after the colon
CarriesPort == Len(call.port) >= 2

WellEscaped ==
  \A i \in 1..Len(call.rest) :
    call.rest[i] = "%" =>
      /\ i + 2 <= Len(call.rest)
      /\ call.rest[i + 1] \in HexDigits
      /\ call.rest[i + 2] \in HexDigits

FailingStage ==
  IF call.secret = <<>> THEN "nil secret"
  ELSE IF call.imageURL \in OtherReferences \ {<<"o","c","i",":","/","/","r",".","i","o",":","5","0","0","0","/","r","e","p","o","/","i","m","a","g","e",":","t","a","g">>, <<"o","c","i",":","/","/","R",".","I","O","/","r","e","p","o","/","i","m","a","g","e",":","t","a","g">>}
  THEN "host extraction"
  ELSE IF call.current = "invalid" \/ (call.current = "absent" /\ call.legacy # "entry")
  THEN "document parsing"
  ELSE IF call.imageURL # RioReference \/ call.current \in {"lacksHost", "otherShape"}
  THEN "key matching"
  ELSE IF call.current = "entry" /\ ~EntryYieldsPair THEN "entry decoding"
  ELSE "none"

\* C21: ExtractRegistryCredentials returns either a non-empty credential
\* string with a nil error or the empty string with a non-nil error; it
\* fails, and returns the empty string, exactly when one of its stages fails
\* (nil secret, host extraction, document parsing, key matching, entry
\* decoding).
C21_AllOrNothing ==
  ResolverReturned =>
    /\ \/ (ret.val # <<>> /\ ret.err = <<>>)
       \/ (ret.val = <<>> /\ ret.err # <<>>)
    /\ ret.err # <<>> <=> FailingStage # "none"

\* The last stage has failed, on a matched entry whose auth field decodes to
\* a text without a colon, and nothing was returned with the error
C21_Witness ==
  /\ ResolverReturned
  /\ FailingStage = "entry decoding"
  /\ call.authConfig.Auth = <<"d","X","A","=">>
  /\ ret.val = <<>> /\ ret.err # <<>>

(***************************************************************************)
(* Claims on the notifications and results of Validate (specification      *)
(* Spec).                                                                  *)
(***************************************************************************)

\* An event reports that the resolver failed
IsResolverFailureEvent(e) == e.reason = "ParseError"

\* C22 (as claimed): every notification Validate emits has severity
\* "Warning" and one of the two reasons ImageAuthIrrelevant and
\* ImageAuthFormatUnsupported.
C22_TwoNotificationReasons ==
  Returned =>
    \A i \in 1..Len(Events) :
      /\ Events[i].eventtype = "Warning"
      /\ Events[i].reason \in {"ImageAuthIrrelevant", "ImageAuthFormatUnsupported"}

\* C22 (amended): every notification Validate emits has severity "Warning"
\* and one of three reasons: ImageAuthIrrelevant, ImageAuthFormatUnsupported,
\* or ParseError, the reason of the warning for a resolver failure, whether
\* the result's reason is ParseError or RegistryEntryMissing.
C22_ThreeNotificationReasons ==
  Returned =>
    \A i \in 1..Len(Events) :
      /\ Events[i].eventtype = "Warning"
      /\ Events[i].reason \in {"ImageAuthIrrelevant", "ImageAuthFormatUnsupported", "ParseError"}
      /\ IsIrrelevantEvent(Events[i]) => (SecretDeclared /\ ~ArtifactKind)
      /\ IsFormatEvent(Events[i]) => res[1].Reason = "WrongType"
      /\ IsResolverFailureEvent(Events[i]) =>
           res[1].Reason \in {"ParseError", "RegistryEntryMissing"}

\* A call that ended in RegistryEntryMissing has emitted its warning under
\* the reason ParseError
C22_Witness ==
  /\ Returned /\ recorder # <<>>
  /\ res[1].Reason = "RegistryEntryMissing"
  /\ Len(Events) = 1
  /\ Events[1].eventtype = "Warning"
  /\ IsResolverFailureEvent(Events[1])
  /\ Contains(Events[1].message, <<"n","o","t"," ","f","o","u","n","d"," ","i","n"," ","a","u","t","h"," ","c","o","n","f","i","g">>)

(***************************************************************************)
(* The same call made twice: Validate by one validator on one host against *)
(* an unchanged store, or ExtractRegistryCredentials on one secret and one *)
(* reference.  What the first call gave is kept in ret (Validate) or res   *)
(* (ExtractRegistryCredentials) while the second is made.                  *)
(***************************************************************************)
InitRepeat ==
  \/ Init
  \/ /\ InitSecretutils
     /\ call.fn = "ExtractRegistryCredentials"

\* The second call of validator.Validate, by the same validator
ValidateAgain ==
  /\ pc = "returned"
  /\ call.fn = "Validate"
  /\ ret' = [res |-> res, err |-> err, events |-> Events]
  /\ LET r == Validate(c, recorder, bmh)
     IN  /\ res' = r.res
         /\ err' = r.err
         /\ recorder' = IF recorder = <<>> THEN <<>> ELSE << recorder[1] \o r.events >>
         /\ gets' = gets \o r.gets
  /\ pc' = "again"
  /\ UNCHANGED <<bmh, c, call>>

\* The second call of ExtractRegistryCredentials, on the same arguments
ExtractRegistryCredentialsAgain ==
  /\ pc = "returned"
  /\ call.fn = "ExtractRegistryCredentials"
  /\ res' = <<ret>>
  /\ ret' = ExtractRegistryCredentials(call.secret, call.imageURL)
  /\ pc' = "again"
  /\ UNCHANGED <<bmh, c, recorder, gets, err, call>>

NextRepeat ==
  \/ ValidateCall
  \/ ValidateAgain
  \/ ExtractRegistryCredentialsCall
  \/ ExtractRegistryCredentialsAgain

SpecRepeat == InitRepeat /\ [][NextRepeat]_vars

indexFunc_inverted(host) ==
  IF /\ host.Spec.Image # <<>>
     /\ host.Spec.Image[1].AuthSecretName # <<>>
     /\ host.Spec.Image[1].AuthSecretName[1] = <<>>
  THEN << host.Spec.Image[1].AuthSecretName[1] >>
  ELSE <<>>

\* The index function of hostImageAuthSecretIndexField: the values a host is
\* filed under
indexFunc(host) ==
  IF /\ host.Spec.Image # <<>>
     /\ host.Spec.Image[1].AuthSecretName # <<>>
     /\ host.Spec.Image[1].AuthSecretName[1] # <<>>
  THEN << host.Spec.Image[1].AuthSecretName[1] >>
  ELSE <<>>

\* client.List of the hosts in a namespace that the index files under value
List(client, Namespace, value) ==
  SelectSeq(client.hosts,
            LAMBDA h : /\ h.Namespace = Namespace
                       /\ \E i \in 1..Len(indexFunc(h)) : indexFunc(h)[i] = value)

\* The reconcile requests a changed secret is mapped to: one for each host
\* listed in the secret's namespace under the secret's name
findBMHsForAuthSecret(client, secret) ==
  LET hosts == List(client, secret.Namespace, secret.Name)
  IN  [i \in 1..Len(hosts) |-> [Namespace |-> hosts[i].Namespace, Name |-> hosts[i].Name]]

\* The keys of the hosts a store may hold, in the order the store lists them
HostKeys ==
  << [Namespace |-> <<"d","e","f","a","u","l","t">>, Name |-> <<"h","o","s","t","-","1">>],
     [Namespace |-> <<"d","e","f","a","u","l","t">>, Name |-> <<"h","o","s","t","-","2">>],
     [Namespace |-> <<"o","t","h","e","r","-","n","a","m","e","s","p","a","c","e">>, Name |-> <<"h","o","s","t","-","1">>] >>

\* What the image of a stored host may be: none, or one with no secret name,
\* an empty one, or one of two names
WatchedImages ==
  { <<>> } \cup
  { <<[URL |-> <<"o","c","i",":","/","/","r","e","g","i","s","t","r","y",".","e","x","a","m","p","l","e",".","c","o","m","/","i","m","a","g","e",":","t","a","g">>, AuthSecretName |-> n]>> :
    n \in { <<>>, << <<>> >>, << <<"m","y","-","s","e","c","r","e","t">> >>, << <<"o","t","h","e","r","-","s","e","c","r","e","t">> >> } }

\* The hosts of a store in key order; present says which keys are held
RECURSIVE HostsOf(_, _, _)
HostsOf(present, image, k) ==
  IF k > Len(HostKeys) THEN <<>>
  ELSE (IF k \in present
        THEN << [Namespace |-> HostKeys[k].Namespace, Name |-> HostKeys[k].Name,
                 Spec |-> [Image |-> image[k]]] >>
        ELSE <<>>) \o HostsOf(present, image, k + 1)

HostStores ==
  { HostsOf(present, image, 1) :
    present \in SUBSET (1..Len(HostKeys)),
    image \in [1..Len(HostKeys) -> WatchedImages] }

\* The secrets whose change the watch is told of
ChangedSecrets ==
  { Secret(ns, n, SecretTypeDockerConfigJson, <<>>) :
    ns \in { <<"d","e","f","a","u","l","t">>, <<"o","t","h","e","r","-","n","a","m","e","s","p","a","c","e">> },
    n \in { <<"m","y","-","s","e","c","r","e","t">>, <<"o","t","h","e","r","-","s","e","c","r","e","t">>, <<"u","n","u","s","e","d","-","s","e","c","r","e","t">> } }

InitWatch ==
  /\ bmh = <<>>
  /\ c \in { [hosts |-> H, secrets |-> {}, fail |-> <<>>] : H \in HostStores }
  /\ recorder = << <<>> >>
  /\ gets = <<>>
  /\ res = <<>>
  /\ err = <<>>
  /\ pc = "call"
  /\ call \in { [fn |-> "findBMHsForAuthSecret", secret |-> s] : s \in ChangedSecrets }
  /\ ret = <<>>

\* The watch maps one changed secret
findBMHsForAuthSecretCall ==
  /\ pc = "call"
  /\ call.fn = "findBMHsForAuthSecret"
  /\ ret' = findBMHsForAuthSecret(c, call.secret)
  /\ pc' = "returned"
  /\ UNCHANGED <<bmh, c, recorder, gets, res, err, call>>

NextWatch == findBMHsForAuthSecretCall

SpecWatch == InitWatch /\ [][NextWatch]_vars

Mapped == pc = "returned" /\ call.fn = "findBMHsForAuthSecret"

\* The number of requests that name the host h
RequestsFor(h) ==
  Cardinality({ i \in 1..Len(ret) : ret[i] = [Namespace |-> h.Namespace, Name |-> h.Name] })

\* The host's image declares the changed secret's name
DeclaresChangedSecret(h) ==
  /\ h.Spec.Image # <<>>
  /\ h.Spec.Image[1].AuthSecretName # <<>>
  /\ h.Spec.Image[1].AuthSecretName[1] # <<>>
  /\ h.Spec.Image[1].AuthSecretName[1] = call.secret.Name

LeadingNotices == IF SecretDeclared /\ ~ArtifactKind THEN 1 ELSE 0

\* The number of further warnings the path calls for
FurtherWarnings ==
  IF res[1].Reason \in {"WrongType", "ParseError", "RegistryEntryMissing"} THEN 1 ELSE 0

\* C25: with a notification sink present, the notifications of one Validate
\* call follow from its path: first the ImageAuthIrrelevant notice if and
\* only if a secret name is declared and the reference is not artifact-kind,
\* emitted before the fetch and so on the SecretNotFound and hard-failure
\* paths too; then at most one further warning, ImageAuthFormatUnsupported
\* on WrongType or the resolver-failure warning on ParseError and
\* RegistryEntryMissing.  Never more than two, never the irrelevant notice
\* together with the resolver-failure warning, and none when an artifact
\* reference validates successfully.
C25_NotificationsFollowPath ==
  (Returned /\ recorder # <<>>) =>
    /\ Len(Events) = LeadingNotices + FurtherWarnings
    /\ Len(Events) <= 2
    /\ \A i \in 1..Len(Events) :
         IsIrrelevantEvent(Events[i]) <=> (i = 1 /\ LeadingNotices = 1)
    /\ \A i \in 1..Len(gets) : gets[i].eventsBefore = LeadingNotices
    /\ (SecretDeclared /\ ~ArtifactKind /\ (err # <<>> \/ res[1].Reason = "SecretNotFound"))
         => (Len(Events) = 1 /\ IsIrrelevantEvent(Events[1]))
    /\ res[1].Reason = "WrongType" => IsFormatEvent(Events[Len(Events)])
    /\ res[1].Reason \in {"ParseError", "RegistryEntryMissing"}
         => IsResolverFailureEvent(Events[Len(Events)])
    /\ \A i \in 1..Len(Events) :
         /\ IsFormatEvent(Events[i]) => res[1].Reason = "WrongType"
         /\ IsResolverFailureEvent(Events[i])
              => res[1].Reason \in {"ParseError", "RegistryEntryMissing"}
    /\ ~ \E i, j \in 1..Len(Events) :
           IsIrrelevantEvent(Events[i]) /\ IsResolverFailureEvent(Events[j])
    /\ (URLSet /\ ArtifactKind /\ res[1].Valid) => Events = <<>>

\* A plain http reference with a secret of an unsupported type: the notice,
\* the fetch, then the format warning
C25_Witness ==
  /\ Returned /\ recorder # <<>>
  /\ SecretDeclared /\ ~ArtifactKind /\ Fetched /\ ~AcceptedType
  /\ Len(Events) = 2
  /\ IsIrrelevantEvent(Events[1]) /\ IsFormatEvent(Events[2])
  /\ Len(gets) = 1 /\ gets[1].eventsBefore = 1

\* C26: in every result Validate returns these three are equivalent: Valid
\* is true, Reason is Valid, the Secret field is non-nil; and Reason is
\* Unknown only in the no-image-URL branch and in the hard-failure return.
C26_ValidReasonSecretAgree ==
  Returned =>
    /\ res # <<>>
    /\ res[1].Valid <=> res[1].Reason = "Valid"
    /\ res[1].Valid <=> res[1].Secret # <<>>
    /\ res[1].Secret # <<>> => (Fetched /\ res[1].Secret = <<TheSecret>>)
    /\ res[1].Reason = "Unknown" => (~URLSet \/ (SecretDeclared /\ err # <<>>))

\* An artifact reference has validated: Valid, reason Valid, the fetched
\* secret attached
C26_Witness ==
  /\ Returned /\ Fetched /\ ArtifactKind
  /\ res[1].Valid /\ res[1].Reason = "Valid" /\ res[1].Secret = <<TheSecret>>
  /\ res[1].Credentials # <<>>

\* The reference is artifact-kind with a scheme not spelled "oci://"
UppercaseScheme == URLSet /\ ArtifactKind /\ ~HasPrefix(Img[1].URL, ociScheme)

\* The same reference with the scheme spelled in lower case
LowercaseSpelling == ociScheme \o SubSeq(Img[1].URL, 7, Len(Img[1].URL))

\* The fetched secret holds a matching entry for the reference's registry:
\* the lower-case spelling of the reference resolves
HoldsEntryForRegistry ==
  ExtractRegistryCredentials(<<TheSecret>>, LowercaseSpelling).err = <<>>

\* C27: a reference whose scheme is spelled with an uppercase letter is
\* flagged artifact-relevant and rejected by the host extraction, so with an
\* accepted-type secret that holds a matching entry for its registry Validate
\* returns Valid=false with reason ParseError, no credentials and no error.
C27_UppercaseSchemeIsParseError ==
  (Returned /\ Fetched /\ AcceptedType /\ UppercaseScheme /\ HoldsEntryForRegistry) =>
    /\ res[1].OCIRelevant
    /\ ~res[1].Valid
    /\ res[1].Reason = "ParseError"
    /\ res[1].Credentials = <<>>
    /\ err = <<>>

(***************************************************************************)
(* Validate in steps, with the store changing under it.  Validate reads    *)
(* the store in one place, the Get of validator.go:90, and works on the    *)
(* copy Get filled in (the local sec) from there on; another party may     *)
(* create, replace or delete the secret before the Get, or between the Get *)
(* and the return.  During the call res holds the result under             *)
(* construction and ret what Get returned; call.versions lists the stores  *)
(* there have been since the call began.                                   *)
(***************************************************************************)
\* The number of changes made to the store during one call
MaxChanges == 2

\* The hosts validated while the store changes
ConcurrentHosts ==
  { [Namespace |-> <<"n","s","1">>, Spec |-> [Image |-> i]] :
    i \in { <<>>,
            <<[URL |-> <<"o","c","i",":","/","/","r",".","i","o","/","a",":","t">>, AuthSecretName |-> <<>>]>>,
            <<[URL |-> <<>>, AuthSecretName |-> << <<"s","1">> >>]>>,
            <<[URL |-> <<"o","c","i",":","/","/","r",".","i","o","/","a",":","t">>, AuthSecretName |-> << <<"s","1">> >>]>>,
            <<[URL |-> <<"h","t","t","p",":","/","/","r",".","i","o","/","a",".","q","c","o","w","2">>, AuthSecretName |-> << <<"s","1">> >>]>> } }

\* The versions of the store: without the secret, or with one version of it
SecretVersions ==
  { {} } \cup
  { { Secret(<<"n","s","1">>, <<"s","1">>, t, d) } :
    t \in {SecretTypeDockerConfigJson, SecretTypeOpaque},
    d \in { [k \in {DockerConfigJsonKey} |-> Wrapped(JSONObject(GoodMap))],
            [k \in {DockerConfigJsonKey} |-> Wrapped(JSONObject(OtherMap))],
            [k \in {DockerConfigJsonKey} |-> JSONInvalid] } }

InitConcurrent ==
  /\ bmh \in ConcurrentHosts
  /\ c \in { [secrets |-> S, fail |-> f] :
             S \in SecretVersions,
             f \in { <<>>, Errorf(<<"c","o","n","n","e","c","t","i","o","n"," ","r","e","f","u","s","e","d">>) } }
  /\ recorder \in { <<>>, << <<>> >> }
  /\ gets = <<>>
  /\ res = <<>>
  /\ err = <<>>
  /\ pc = "call"
  /\ call = [fn |-> "Validate", versions |-> <<c>>]
  /\ ret = <<>>

\* Validate up to the Get: the two early returns, or the partial result and
\* the warning for an image that is not an OCI image
ValidateBegin ==
  /\ pc = "call"
  /\ call.fn = "Validate"
  /\ IF imageURLNotSet(bmh.Spec.Image) \/ noAuthSecretReferenced(bmh.Spec.Image)
     THEN /\ res' = Validate(c, recorder, bmh).res
          /\ pc' = "returned"
          /\ UNCHANGED recorder
     ELSE /\ res' = << [Result EXCEPT !.OCIRelevant = isOCI(bmh.Spec.Image[1].URL)] >>
          /\ recorder' = IF recorder = <<>> THEN <<>>
                         ELSE << recorder[1] \o
                                 irrelevantEvents(recorder,
                                                  [Result EXCEPT !.OCIRelevant = isOCI(bmh.Spec.Image[1].URL)],
                                                  bmh.Spec.Image[1].AuthSecretName[1],
                                                  bmh.Spec.Image[1].URL) >>
          /\ pc' = "get"
  /\ UNCHANGED <<bmh, c, gets, err, call, ret>>

\* The Get of the secret: the copy it fills in, or its error
ValidateGet ==
  /\ pc = "get"
  /\ ret' = Get(c, bmh.Namespace, bmh.Spec.Image[1].AuthSecretName[1])
  /\ gets' = Append(gets, [Namespace |-> bmh.Namespace,
                           Name |-> bmh.Spec.Image[1].AuthSecretName[1],
                           eventsBefore |-> IF recorder = <<>> THEN 0 ELSE Len(recorder[1])])
  /\ pc' = "got"
  /\ UNCHANGED <<bmh, c, recorder, res, err, call>>

\* Variant of ValidateEnd that gets the secret again after the type check
ValidateEnd_refetch ==
  /\ pc = "got"
  /\ LET secretName == bmh.Spec.Image[1].AuthSecretName[1]
         URL == bmh.Spec.Image[1].URL
         again == Get(c, bmh.Namespace, secretName)
         r == IF ret.err # <<>> \/ ~isAllowedDockerConfigType(ret.sec[1].Type)
                 \/ again.err # <<>>
              THEN afterGet(recorder, res[1], secretName, bmh.Namespace, URL, ret)
              ELSE IF res[1].OCIRelevant
              THEN afterExtract(recorder, res[1], secretName, URL, again.sec[1],
                                ExtractRegistryCredentials(again.sec, URL))
              ELSE Returns(onValid(res[1], again.sec[1], res[1].Credentials), <<>>, <<>>)
     IN  /\ res' = r.res
         /\ err' = r.err
         /\ recorder' = IF recorder = <<>> THEN <<>> ELSE << recorder[1] \o r.events >>
  /\ pc' = "returned"
  /\ UNCHANGED <<bmh, c, gets, call, ret>>

\* Validate from the Get on: the type check and the extraction on the copy
ValidateEnd ==
  /\ pc = "got"
  /\ LET r == afterGet(recorder, res[1], bmh.Spec.Image[1].AuthSecretName[1],
                       bmh.Namespace, bmh.Spec.Image[1].URL, ret)
     IN  /\ res' = r.res
         /\ err' = r.err
         /\ recorder' = IF recorder = <<>> THEN <<>> ELSE << recorder[1] \o r.events >>
  /\ pc' = "returned"
  /\ UNCHANGED <<bmh, c, gets, call, ret>>

\* Another party creates, replaces or deletes the secret during the call
StoreChange ==
  /\ pc \in {"call", "get", "got"}
  /\ "versions" \in DOMAIN call
  /\ Len(call.versions) <= MaxChanges
  /\ \E S \in SecretVersions \ {c.secrets} :
       /\ c' = [c EXCEPT !.secrets = S]
       /\ call' = [call EXCEPT !.versions = Append(@, c')]
  /\ UNCHANGED <<bmh, recorder, gets, res, err, pc, ret>>

NextConcurrent ==
  \/ ValidateBegin
  \/ ValidateGet
  \/ ValidateEnd
  \/ StoreChange

SpecConcurrent == InitConcurrent /\ [][NextConcurrent]_vars

\* What a call running alone against the store v returns and emits
Alone(v) ==
  Validate(v, IF recorder = <<>> THEN <<>> ELSE << <<>> >>, bmh)

\* The call's result, error and notifications are those of a call running
\* alone against the store v
AsAlone(v) ==
  /\ res = Alone(v).res
  /\ err = Alone(v).err
  /\ Events = Alone(v).events

\* C28: each Validate call fetches the secret at most once, and not at all
\* in the no-URL and NotRequired branches; it never writes to the store or
\* to the host; the returned Secret is the fetched copy, and when the secret
\* is created, replaced or deleted during the call the result is the one a
\* call running alone against a single version of the store returns.
C28_SingleFetchedCopy ==
  /\ [](/\ Len(gets) <= 1
        /\ Returned =>
             /\ (imageURLNotSet(bmh.Spec.Image) \/ noAuthSecretReferenced(bmh.Spec.Image))
                  <=> gets = <<>>
             /\ res[1].Secret # <<>> => res[1].Secret = ret.sec
             /\ \E k \in 1..Len(call.versions) : AsAlone(call.versions[k]))
  /\ [][pc' # pc => (c' = c /\ bmh' = bmh)]_vars

\* The secret was replaced before the Get and again after it: the result is
\* that of the second version alone, and of neither the first nor the third
C28_Witness ==
  /\ Returned
  /\ Len(call.versions) = 3
  /\ Len(gets) = 1
  /\ AsAlone(call.versions[2])
  /\ ~AsAlone(call.versions[1])
  /\ ~AsAlone(call.versions[3])
  /\ res[1].Valid /\ res[1].Secret = ret.sec

(***************************************************************************)
(* One store asked for Docker Hub under both spellings of its name: the    *)
(* first findAuthConfig call is for "docker.io" or "index.docker.io", the  *)
(* second, on the same map, for the other one.  The first answer is in     *)
(* ret, the second in res.                                                 *)
(***************************************************************************)
OtherSpelling(h) ==
  IF h = <<"d","o","c","k","e","r",".","i","o">> THEN <<"i","n","d","e","x",".","d","o","c","k","e","r",".","i","o">> ELSE <<"d","o","c","k","e","r",".","i","o">>

InitSpellings ==
  /\ InitFind
  /\ call.registryHost \in { <<"d","o","c","k","e","r",".","i","o">>, <<"i","n","d","e","x",".","d","o","c","k","e","r",".","i","o">> }

\* The second findAuthConfig call, for the other spelling
FindAuthConfigOtherSpelling ==
  /\ pc = "returned"
  /\ call.fn = "findAuthConfig"
  /\ res' = << findAuthConfig(call.auths, OtherSpelling(call.registryHost)) >>
  /\ pc' = "again"
  /\ UNCHANGED <<bmh, c, recorder, gets, err, call, ret>>

NextSpellings ==
  \/ FindAuthConfigCall
  \/ FindAuthConfigOtherSpelling

SpecSpellings == InitSpellings /\ [][NextSpellings]_vars

\* Both spellings have been asked for
BothAsked == pc = "again" /\ call.fn = "findAuthConfig"

\* The two spellings resolve to the same entry, or both fail
SameEntryOrBothFail ==
  \/ ret.err = <<>> /\ res[1].err = <<>> /\ ret.val = res[1].val
  \/ ret.err # <<>> /\ res[1].err # <<>>

\* The keys of the store that a lookup for either spelling can match
MatchableKeys ==
  DOMAIN call.auths \cap
    (KeyForms(<<"d","o","c","k","e","r",".","i","o">>) \cup KeyForms(<<"i","n","d","e","x",".","d","o","c","k","e","r",".","i","o">>) \cup DockerHubForms)

\* C29 (as claimed): for any credential store the query spellings
\* "docker.io" and "index.docker.io" resolve to the same auth entry, or both
\* fail, stores with several Docker Hub alias keys included.
C29_SpellingsResolveAlike == BothAsked => SameEntryOrBothFail

\* C29 (amended): for a store that holds at most one key either spelling
\* can match, that key being one of the Docker Hub alias forms, the two
\* spellings resolve to the same entry, that key's, or both fail when there
\* is no such key; other keys of the store play no part.
C29_SoleAliasKeyResolvesAlike ==
  (BothAsked /\ Cardinality(MatchableKeys) <= 1 /\ MatchableKeys \subseteq DockerHubForms) =>
    /\ SameEntryOrBothFail
    /\ \A k \in MatchableKeys : ret = Return(<<call.auths[k]>>, <<>>)
    /\ MatchableKeys = {} => ret.err # <<>>

\* A store keyed "https://docker.io" and "other.io" has given both
\* spellings the entry under "https://docker.io"
C29_Witness ==
  /\ BothAsked
  /\ call.registryHost = <<"i","n","d","e","x",".","d","o","c","k","e","r",".","i","o">>
  /\ DOMAIN call.auths = { <<"h","t","t","p","s",":","/","/","d","o","c","k","e","r",".","i","o">>, <<"o","t","h","e","r",".","i","o">> }
  /\ ret.err = <<>> /\ res[1] = ret
  /\ ret.val[1].Username = <<"h","t","t","p","s",":","/","/","d","o","c","k","e","r",".","i","o">>

\* The entry ExtractRegistryCredentials matched for the call
MatchedEntry == IF MatchedLegacy THEN LegacyEntry ELSE call.authConfig

\* The base64-decoded output, split on its first colon
SplitOutput ==
  LET decoded == DecodeString(ret.val).val
      colon == IndexByte(decoded, ":")
  IN  [username |-> SubSeq(decoded, 1, colon - 1),
       password |-> SubSeq(decoded, colon + 1, Len(decoded))]

\* C30: for every successful resolution, splitting the base64-decoded
\* output on its first colon recovers exactly the (username, password) pair
\* extractCredentials returned for the matched entry, an explicit username
\* with a colon in it included.
C30_FirstColonSplitRecoversPair ==
  (ResolverReturned /\ ret.err = <<>>) =>
    /\ DecodeString(ret.val).ok
    /\ HasColon(DecodeString(ret.val).val)
    /\ extractCredentials(MatchedEntry).err = <<>>
    /\ SplitOutput.username = extractCredentials(MatchedEntry).username
    /\ SplitOutput.password = extractCredentials(MatchedEntry).password

====
